---- MODULE Spec2Model ----
(***************************************************************************)
(* Offline-first synchronisation of netball games between the device-local *)
(* stores (guest, hybrid, registered), the persisted Sync Queue and the    *)
(* remote document store, as implemented in app/lib/guest-storage.ts and   *)
(* app/lib/firebase-utils.ts (and its older twin app/lib/local-utils.ts).  *)
(***************************************************************************)
EXTENDS Integers, Sequences, FiniteSets, TLC

\* ------------------------------------------------------------------ bounds
MaxGames == 2        \* game ids created in one behaviour
MaxUpdates == 3      \* updateGame calls and peer writes in one behaviour
MaxData == 1         \* distinct score payloads a scorer update can carry
MaxInflight == 1     \* updateGame calls awaiting their remote write
MaxTicks == 1        \* clock advances in one behaviour

\* ------------------------------------------------------- program constants
SyncQueueCap == 100  \* guest-storage.ts:844
StaleMs == 30000     \* local-utils.ts:451, :526
StartMs == 1         \* Date.now() when the session starts
TickMs == StaleMs + 1 \* the clock advances past the staleness threshold

VARIABLES
  user,         \* auth.currentUser: "none" | "anon" | "reg"
  isOnline,     \* module flag isOnline of firebase-utils.ts
  now,          \* Date.now()
  nextId,       \* next fresh game id (Date.now().toString() in the code)
  nUpdates,     \* updateGame calls and peer writes so far
  guestGames,   \* localStorage guest_game_<id>
  hybridGames,  \* localStorage hybrid_guest_game_<id>
  localGames,   \* localStorage local_game_<id>
  remote,       \* remote collection 'games'
  queue,        \* localStorage sync_queue
  enqueued,     \* per game id, the item of the latest saveSyncQueue call
  inflight,     \* updateGame calls suspended at their await
  loading,      \* loadGame calls suspended at their await
  drainActive,  \* a syncPendingChanges run is in progress
  drainSnap,    \* the queue as read by that run (pendingChanges)
  drainIdx,     \* index of the next change of the run
  drainFailed,  \* changes of the run whose remote operation threw
  last,         \* the operation (and its outcome) that produced this state
  returned,     \* what that operation returned to its caller
  syncTimeout,  \* scorer page: when syncTimeoutRef's timer is due, or NoTimer
  pendingSync,  \* scorer page: pendingSyncRef.current
  syncing,      \* debounce callbacks suspended at `await updateGame`
  mutated,      \* the latest scorer-page mutation: its payload and time
  deleting,     \* deleteGame calls of a registered user, suspended
  scorerGame,   \* scorer page: the game it shows (settings and state)
  timer,        \* scorer page: usePhaseTimer's remainingMs and isExpired
  effectDue,    \* scorer page: the auto-advance effect is scheduled to run
  left,         \* live view: the remaining time it shows
  leftLegacy,   \* the older live view: the remaining time it shows
  clockSteps,   \* clock advances of the scorer page so far
  callArgs,     \* the arguments of the function call under study, or NoCall
  beforeGoal,   \* scorer page: the game state when score() was last called
  liveView      \* live view page: its state, refs, listeners and intervals

storeVars == <<guestGames, hybridGames, localGames>>
drainVars == <<drainActive, drainSnap, drainIdx, drainFailed>>
envVars   == <<user, isOnline, now>>
queueVars == <<queue, enqueued>>
pageVars == <<syncTimeout, pendingSync, syncing, mutated>>
\* what the synchronisation operations leave alone
clockVars == <<scorerGame, timer, effectDue, left, leftLegacy, clockSteps>>
auxVars == <<callArgs, beforeGoal, liveView>>
extVars == <<pageVars, deleting, clockVars, auxVars>>
vars == <<user, isOnline, now, nextId, nUpdates, guestGames, hybridGames,
          localGames, remote, queue, enqueued, inflight, loading, drainActive,
          drainSnap, drainIdx, drainFailed, last, returned, pageVars, deleting,
          clockVars, auxVars>>

Games == 1..MaxGames
Users == {"none", "anon", "reg"}
RegUid == "reg"
GuestOwner == "guest_device"

\* return values: nothing (a listener or a suspended call), a game id, a
\* game, null
Nothing == [kind |-> "nothing"]
ReturnedId(g) == [kind |-> "id", id |-> g]
ReturnedGame(g, rec) == [kind |-> "game", id |-> g, game |-> rec]
ReturnedNull == [kind |-> "null"]

\* ----------------------------------------------------------- JS helpers
\* {...a, ...b}: every key of b overrides the key of a.
Merge(a, b) ==
  [k \in (DOMAIN a) \cup (DOMAIN b) |-> IF k \in DOMAIN b THEN b[k] ELSE a[k]]

\* a record without the keys in ks (object rest destructuring)
Without(a, ks) == [k \in (DOMAIN a) \ ks |-> a[k]]

\* store[id] := rec (localStorage.setItem of a full record)
Put(store, id, rec) ==
  [x \in (DOMAIN store) \cup {id} |-> IF x = id THEN rec ELSE store[x]]

\* (x.version || 0): a missing or zero version reads as 0
VersionOr0(rec) == IF "version" \in DOMAIN rec THEN rec.version ELSE 0

\* (x.version || 1): a missing or zero version reads as 1
VersionOr1(rec) ==
  IF "version" \in DOMAIN rec /\ rec.version # 0 THEN rec.version ELSE 1

\* ----------------------------------------------------- Local Game Store
\* {...game, ...updates} with no deep merge of state
mergeShallow(game, updates) == Merge(game, updates)

\* updateLocalGame / updateGuestGame: {...game, ...updates, state: deep}
mergeUpdates(game, updates) ==
  LET top == Merge(game, updates)
  IN  [top EXCEPT !.state =
         IF "state" \in DOMAIN updates
         THEN Merge(game.state, updates.state) ELSE game.state]

updateLocalGame(store, id, updates) ==
  IF id \in DOMAIN store
  THEN Put(store, id, mergeUpdates(store[id], updates))
  ELSE store

\* updateHybridGuestGame: as above, then version and lastSyncedAt are
\* always re-stamped, whatever the updates carry
updateHybridGuestGame(store, id, updates, t) ==
  IF id \in DOMAIN store
  THEN Put(store, id,
           Merge(mergeUpdates(store[id], updates),
                 [version |-> VersionOr1(store[id]) + 1, lastSyncedAt |-> t]))
  ELSE store

\* ------------------------------------------------------------ Sync Queue
\* Array.prototype.sort((a, b) => a.timestamp - b.timestamp): a stable
\* sort, so each item's place is the number of items that go before it.
\* The two special cases (nothing to move; only the last item to move) are
\* the same function, evaluated without ranking every item.
SortByTimestamp(q) ==
  LET n == Len(q)
      before(i) ==
        {j \in 1..n : \/ q[j].timestamp < q[i].timestamp
                      \/ q[j].timestamp = q[i].timestamp /\ j < i}
      ascending(m) ==
        \A j \in 1..(m - 1) : q[j].timestamp <= q[j + 1].timestamp
      ranked ==
        LET place == [i \in 1..n |-> Cardinality(before(i)) + 1]
            at == [p \in 1..n |-> CHOOSE i \in 1..n : place[i] = p]
        IN  [p \in 1..n |-> q[at[p]]]
      lastMoved ==
        LET p == Cardinality(before(n)) + 1
        IN  [k \in 1..n |->
               IF k < p THEN q[k] ELSE IF k = p THEN q[n] ELSE q[k - 1]]
  IN  IF ascending(n) THEN q
      ELSE IF ascending(n - 1) THEN lastMoved
      ELSE ranked

\* saveSyncQueue without the filter on gameId
saveSyncQueueKeepsAll(q, item) ==
  LET sorted == SortByTimestamp(Append(q, item))
  IN  IF Len(sorted) > SyncQueueCap
      THEN SubSeq(sorted, Len(sorted) - SyncQueueCap + 1, Len(sorted))
      ELSE sorted

saveSyncQueue(q, item) ==
  LET filtered == SelectSeq(q, LAMBDA x : x.gameId # item.gameId)
      sorted   == SortByTimestamp(Append(filtered, item))
  IN  IF Len(sorted) > SyncQueueCap
      THEN SubSeq(sorted, Len(sorted) - SyncQueueCap + 1, Len(sorted))
      ELSE sorted

\* a saveSyncQueue call as a step of an operation
Enqueue(item) ==
  /\ queue' = saveSyncQueue(queue, item)
  /\ enqueued' = Put(enqueued, item.gameId, item)

\* at most one call
EnqueueAll(items) ==
  IF items = {} THEN UNCHANGED queueVars
  ELSE \E item \in items : Enqueue(item)

\* a failure handler that logs and queues nothing
OnRemoteFailureIgnored(item) == UNCHANGED queueVars

\* the catch blocks (and not-connected branches) of createGame and
\* updateGame: the failure is logged, the mutation is queued, nothing is
\* thrown
OnRemoteFailure(item) == Enqueue(item)

CreateItem(g, gameData, t) ==
  [type |-> "create", gameId |-> g, payload |-> gameData,
   timestamp |-> t, version |-> 1]

UpdateItem(g, updates, t, v) ==
  [type |-> "update", gameId |-> g, payload |-> updates,
   timestamp |-> t, version |-> v]

\* --------------------------------------------------------------- inputs
FirstPhase == [type |-> "quarter", index |-> 1]
InitialState == [scores |-> 0, phase |-> FirstPhase]
GameDataSet ==
  {[teamA |-> "obj", settings |-> "chosen", state |-> InitialState,
    sharePublic |-> sp] : sp \in BOOLEAN}
DataSet == 1..MaxData

\* ----------------------------------------------------------- scorer page
\* the refs of the scorer page when it mounts: no timer, nothing pending
NoTimer == 0
NoPending == [null |-> TRUE]
NoMutation == [updates |-> NoPending, at |-> 0]

PageInit ==
  /\ syncTimeout = NoTimer
  /\ pendingSync = NoPending
  /\ syncing = {}
  /\ mutated = NoMutation
  /\ deleting = {}

\* no scorer page or live view is showing a clock
NoGame == [null |-> TRUE]

ClockIdle ==
  /\ scorerGame = NoGame
  /\ timer = [remainingMs |-> 0, isExpired |-> FALSE]
  /\ effectDue = FALSE
  /\ left = 0
  /\ leftLegacy = 0
  /\ clockSteps = 0

\* no function call is under study
NoCall == [null |-> TRUE]

\* the live view page before it mounts: nothing shown, no handle taken
NoHandle == 0

LegacyIdle == [game |-> NoGame, gameNotFound |-> FALSE, loading |-> TRUE]

ViewIdle ==
  [phase |-> "idle", isMounted |-> FALSE, game |-> NoGame,
   gameNotFound |-> FALSE, loading |-> TRUE, unsubscribeRef |-> NoHandle,
   localPollingRef |-> NoHandle, isHybridGameRef |-> FALSE,
   loadPending |-> FALSE, listeners |-> {}, intervals |-> {},
   nextHandle |-> 1, legacy |-> LegacyIdle]

AuxIdle == callArgs = NoCall /\ beforeGoal = NoGame /\ liveView = ViewIdle

ExtInit == PageInit /\ ClockIdle /\ AuxIdle

\* what runs when an updateGame call returns to its caller: the debounce
\* callback clears pendingSyncRef after its await; other callers keep no
\* page state
AfterUpdateGame(op) ==
  /\ syncing' = syncing \ {op}
  /\ pendingSync' = IF op \in syncing THEN NoPending ELSE pendingSync
  /\ UNCHANGED <<syncTimeout, mutated, deleting, clockVars, auxVars>>

\* a session starts with the auth state it was left in; sign-in changes
\* are not part of a session
Init ==
  /\ user \in Users
  /\ isOnline = TRUE
  /\ now = StartMs
  /\ nextId = 1
  /\ nUpdates = 0
  /\ guestGames = <<>>
  /\ hybridGames = <<>>
  /\ localGames = <<>>
  /\ remote = <<>>
  /\ queue = <<>>
  /\ enqueued = <<>>
  /\ inflight = {}
  /\ loading = {}
  /\ drainActive = FALSE
  /\ drainSnap = <<>>
  /\ drainIdx = 0
  /\ drainFailed = {}
  /\ last = "init"
  /\ returned = Nothing
  /\ ExtInit

\* ---------------------------------------------------------- environment
\* TickMs is longer than any remote call is left pending (the connection
\* check gives up after 5000 ms), so the clock advances between calls
Tick ==
  /\ now + TickMs <= StartMs + MaxTicks * TickMs
  /\ inflight = {} /\ loading = {} /\ ~drainActive
  /\ now' = now + TickMs
  /\ last' = "tick"
  /\ returned' = Nothing
  /\ UNCHANGED <<user, isOnline, nextId, nUpdates, storeVars, remote, queueVars, inflight,
                 loading, drainVars>>
  /\ UNCHANGED extVars

GoOffline ==
  /\ isOnline
  /\ isOnline' = FALSE
  /\ last' = "offline"
  /\ returned' = Nothing
  /\ UNCHANGED <<user, now, nextId, nUpdates, storeVars, remote, queueVars,
                 inflight, loading, drainVars>>
  /\ UNCHANGED extVars

\* ----------------------------------------------------------- createGame
\* firebase-utils.ts createGame. The game id is fresh (Date.now()), so no
\* other operation can name the game before createGame returns: the whole
\* call is one step, its remote outcome chosen by out.
LocalRecord(gd, t) ==
  Merge(gd, [ownerId |-> RegUid, lastSyncedAt |-> t, version |-> 1])

RemoteRecord(gd, t) ==
  Merge(gd, [ownerId |-> RegUid, isPubliclyViewable |-> gd.sharePublic,
             lastSyncedAt |-> t, version |-> 1])

\* the GameSummary merged over the document by the second setDoc
SummaryFields == [teamA |-> "str", ownerId |-> RegUid]

HybridRecord(gd, t) ==
  Merge(gd, [lastSyncedAt |-> t, version |-> 1, sharePublic |-> TRUE])

GuestRemoteRecord(gd, t) ==
  Merge(gd, [ownerId |-> GuestOwner, sharePublic |-> TRUE,
             isPubliclyViewable |-> TRUE, lastSyncedAt |-> t, version |-> 1])

GuestQueuedRecord(gd, t) ==
  Merge(gd, [ownerId |-> GuestOwner, sharePublic |-> TRUE,
             lastSyncedAt |-> t, version |-> 1])

CreateRegistered(g, gd, out) ==
  LET saved == Put(localGames, g, LocalRecord(gd, now))
      game  == RemoteRecord(gd, now)
  IN  /\ out \in {"ok", "notConnected", "throw", "throwSecond"}
      /\ out \in {"ok", "throw", "throwSecond"} => isOnline
      /\ localGames' =
           IF out = "ok"
           THEN updateLocalGame(saved, g, [lastSyncedAt |-> now])
           ELSE saved
      /\ remote' =
           CASE out = "ok" -> Put(remote, g, Merge(game, SummaryFields))
             [] out = "throwSecond" -> Put(remote, g, game)
             [] OTHER -> remote
      /\ IF out = "ok" THEN UNCHANGED queueVars
         ELSE OnRemoteFailure(CreateItem(g, game, now))
      /\ UNCHANGED <<guestGames, hybridGames>>

CreateHybrid(g, gd, out) ==
  LET saved == Put(hybridGames, g, HybridRecord(gd, now))
  IN  /\ out \in {"ok", "notConnected", "throw"}
      /\ out \in {"ok", "throw"} => isOnline
      /\ hybridGames' =
           IF out = "ok"
           THEN updateHybridGuestGame(saved, g, [lastSyncedAt |-> now], now)
           ELSE saved
      /\ remote' =
           IF out = "ok" THEN Put(remote, g, GuestRemoteRecord(gd, now))
           ELSE remote
      /\ IF out = "ok" THEN UNCHANGED queueVars
         ELSE OnRemoteFailure(CreateItem(g, GuestQueuedRecord(gd, now), now))
      /\ UNCHANGED <<guestGames, localGames>>

\* a guest branch that also writes the remote document
CreateGuestSynced(g, gd, out) ==
  /\ out = "local"
  /\ guestGames' = Put(guestGames, g, Merge(gd, [sharePublic |-> FALSE]))
  /\ remote' = Put(remote, g, GuestRemoteRecord(gd, now))
  /\ UNCHANGED <<hybridGames, localGames, queueVars>>

CreateGuest(g, gd, out) ==
  /\ out = "local"
  /\ guestGames' = Put(guestGames, g, Merge(gd, [sharePublic |-> FALSE]))
  /\ UNCHANGED <<hybridGames, localGames, remote, queueVars>>

CreateGame(gd, out) ==
  /\ nextId <= MaxGames
  /\ last' = CASE out = "ok" -> "createGameSynced"
               [] out = "local" -> "createGameLocal"
               [] out = "fallback" -> "createGameFallback"
               [] OTHER -> "createGameQueued"
  /\ IF user = "none"
     THEN /\ out = "fallback"
          /\ returned' = [kind |-> "fallback"]
          /\ UNCHANGED <<nextId, storeVars, remote, queueVars>>
     ELSE /\ nextId' = nextId + 1
          /\ returned' = ReturnedId(nextId)
          /\ CASE user = "reg" -> CreateRegistered(nextId, gd, out)
               [] user = "anon" /\ gd.sharePublic ->
                    CreateHybrid(nextId, gd, out)
               [] OTHER -> CreateGuest(nextId, gd, out)
  /\ UNCHANGED <<envVars, nUpdates, inflight, loading, drainVars>>
  /\ UNCHANGED extVars

CreateOutcomes == {"ok", "notConnected", "throw", "throwSecond", "local",
                   "fallback"}

\* ----------------------------------------------------------- updateGame
\* firebase-utils.ts updateGame, first half: the synchronous local write up
\* to `await checkFirebaseConnection()`. updates is what the scorer page
\* passes, {state: {...}}.
ScorerUpdates(d) == [state |-> [scores |-> d, phase |-> FirstPhase]]

UpdateOp(g, fam, v, updates, updated) ==
  [g |-> g, fam |-> fam, newVersion |-> v, updates |-> updates,
   updated |-> updated]

UpdateHybridStart(g, updates) ==
  LET newVersion == VersionOr1(hybridGames[g]) + 1
      guestUpdateData ==
        Merge(Without(updates, {"lastSyncedAt", "version", "sharePublic"}),
              [version |-> newVersion, lastSyncedAt |-> now])
      updated == updateHybridGuestGame(hybridGames, g, guestUpdateData, now)
  IN  /\ hybridGames' = updated
      /\ inflight' =
           inflight \cup {UpdateOp(g, "hybrid", newVersion, updates, updated[g])}
      /\ returned' = Nothing
      /\ UNCHANGED <<guestGames, localGames>>

UpdateGuestStart(g, updates) ==
  /\ guestGames' =
       updateLocalGame(guestGames, g,
                       Without(updates, {"lastSyncedAt", "version", "sharePublic"}))
  /\ returned' = ReturnedGame(g, guestGames'[g])
  /\ UNCHANGED <<hybridGames, localGames, inflight>>

UpdateRegisteredStart(g, updates) ==
  LET newVersion == VersionOr0(localGames[g]) + 1
      localUpdateData ==
        Merge(Without(updates, {"lastSyncedAt"}),
              [version |-> newVersion, lastSyncedAt |-> now])
      updated == updateLocalGame(localGames, g, localUpdateData)
  IN  /\ localGames' = updated
      /\ inflight' =
           inflight \cup {UpdateOp(g, "reg", newVersion, updates, updated[g])}
      /\ returned' = Nothing
      /\ UNCHANGED <<guestGames, hybridGames>>

UpdateGameStart(g, d) ==
  /\ Cardinality(inflight) < MaxInflight
  /\ nUpdates < MaxUpdates
  /\ nUpdates' = nUpdates + 1
  /\ IF user = "anon"
     THEN CASE g \in DOMAIN hybridGames -> UpdateHybridStart(g, ScorerUpdates(d))
            [] g \in DOMAIN guestGames /\ g \notin DOMAIN hybridGames ->
                 UpdateGuestStart(g, ScorerUpdates(d))
            [] OTHER -> FALSE
     ELSE /\ g \in DOMAIN localGames
          /\ UpdateRegisteredStart(g, ScorerUpdates(d))
  /\ last' = "updateGame"
  /\ UNCHANGED <<envVars, nextId, remote, queueVars, loading, drainVars>>
  /\ UNCHANGED extVars

\* updateDoc(ref, {...updates, lastSyncedAt: serverTimestamp(), version})
updateDoc(store, g, updates, v, t) ==
  Put(store, g, Merge(store[g], Merge(updates, [lastSyncedAt |-> t, version |-> v])))

\* second half of updateGame: the connection check and the remote write
\* have settled. "ok": connected and updateDoc resolved (the document must
\* exist); "fail": not connected, or updateDoc threw.
UpdateGameFinish(op, out) ==
  /\ op \in inflight
  /\ inflight' = inflight \ {op}
  /\ out \in {"ok", "fail"}
  /\ IF out = "ok"
     THEN /\ isOnline /\ user # "none" /\ op.g \in DOMAIN remote
          /\ remote' = updateDoc(remote, op.g, op.updates, op.newVersion, now)
          /\ hybridGames' =
               IF op.fam = "hybrid"
               THEN updateHybridGuestGame(hybridGames, op.g,
                                          [lastSyncedAt |-> now], now)
               ELSE hybridGames
          /\ UNCHANGED queueVars
     ELSE /\ OnRemoteFailure(UpdateItem(op.g, op.updates, now, op.newVersion))
          /\ UNCHANGED <<remote, hybridGames>>
  /\ last' = IF out = "ok" THEN "updateGameSynced" ELSE "updateGameQueued"
  /\ returned' = ReturnedGame(op.g, op.updated)
  /\ UNCHANGED <<envVars, nextId, nUpdates, guestGames, localGames, loading, drainVars>>
  /\ AfterUpdateGame(op)

\* ---------------------------------------------------- syncPendingChanges
\* window 'online' listener: isOnline = true; syncPendingChanges() runs up
\* to its first await. One run at a time is modelled: an online event
\* during a run only sets the flag.
GoOnline ==
  /\ ~isOnline
  /\ isOnline' = TRUE
  /\ IF user = "reg" /\ queue # <<>> /\ ~drainActive
     THEN /\ drainActive' = TRUE
          /\ drainSnap' = queue
          /\ drainIdx' = 1
          /\ drainFailed' = {}
     ELSE UNCHANGED drainVars
  /\ last' = "online"
  /\ returned' = Nothing
  /\ UNCHANGED <<user, now, nextId, nUpdates, storeVars, remote, queueVars,
                 inflight, loading>>
  /\ UNCHANGED extVars

\* a drain that replays updates only
DrainWriteUpdatesOnly(store, change, t) ==
  IF change.type = "update"
  THEN updateDoc(store, change.gameId, change.payload,
                 VersionOr0(change) + 1, t)
  ELSE store

\* the remote operation of one queued change
DrainWrite(store, change, t) ==
  IF change.type = "update"
  THEN updateDoc(store, change.gameId, change.payload,
                 VersionOr0(change) + 1, t)
  ELSE Put(store, change.gameId,
           Merge(change.payload, [lastSyncedAt |-> t, version |-> 1]))

\* the local confirmation after a successful remote operation
DrainConfirm(store, change, t) ==
  updateLocalGame(store, change.gameId,
                  [lastSyncedAt |-> t, version |-> VersionOr0(change) + 1])

\* one iteration of `for (const change of pendingChanges)`
DrainStep(out) ==
  /\ drainActive
  /\ drainIdx <= Len(drainSnap)
  /\ out \in {"ok", "fail"}
  /\ LET change == drainSnap[drainIdx]
     IN  IF out = "ok"
         THEN /\ isOnline
              /\ change.type = "update" => change.gameId \in DOMAIN remote
              /\ remote' = DrainWrite(remote, change, now)
              /\ localGames' = DrainConfirm(localGames, change, now)
              /\ UNCHANGED drainFailed
         ELSE /\ drainFailed' = drainFailed \cup {change}
              /\ UNCHANGED <<remote, localGames>>
  /\ drainIdx' = drainIdx + 1
  /\ last' = IF out = "ok" THEN "drainStepOk" ELSE "drainStepFailed"
  /\ returned' = Nothing
  /\ UNCHANGED <<envVars, nextId, nUpdates, guestGames, hybridGames, queueVars, inflight,
                 loading, drainActive, drainSnap>>
  /\ UNCHANGED extVars

\* what the run leaves in localStorage when its loop is over
QueueAfterDrain(q, failed) == <<>>

DrainFinish ==
  /\ drainActive
  /\ drainIdx > Len(drainSnap)
  /\ queue' = QueueAfterDrain(queue, drainFailed)
  /\ UNCHANGED enqueued
  /\ drainActive' = FALSE
  /\ drainSnap' = <<>>
  /\ drainIdx' = 0
  /\ drainFailed' = {}
  /\ last' = "drainFinish"
  /\ returned' = Nothing
  /\ UNCHANGED <<envVars, nextId, nUpdates, storeVars, remote, inflight, loading>>
  /\ UNCHANGED extVars

\* ------------------------------------------------------------- loadGame
\* A loadGame call reads the local record, suspends at its remote read and
\* resolves the conflict with the record as it was read before the await.
LoadOp(g, impl, fam, hasLocal, seen) ==
  [g |-> g, impl |-> impl, fam |-> fam, hasLocal |-> hasLocal, seen |-> seen]

NoRecord == [version |-> 0]

\* an anonymous user's read: the hybrid record first, then the guest one
LocalRead(g) ==
  IF g \in DOMAIN hybridGames THEN ReturnedGame(g, hybridGames[g])
  ELSE IF g \in DOMAIN guestGames THEN ReturnedGame(g, guestGames[g])
  ELSE ReturnedNull

\* firebase-utils.ts loadGame, up to `await checkFirebaseConnection()`.
\* An anonymous user's load only reads the hybrid and guest records.
LoadGameStart(g) ==
  /\ loading = {}
  /\ g < nextId
  /\ IF user = "anon"
     THEN /\ returned' = LocalRead(g)
          /\ UNCHANGED loading
     ELSE /\ returned' = Nothing
          /\ loading' =
            {LoadOp(g, "firebase-utils", "reg", g \in DOMAIN localGames,
                    IF g \in DOMAIN localGames THEN localGames[g] ELSE NoRecord)}
  /\ last' = "loadGame"
  /\ UNCHANGED <<envVars, nextId, nUpdates, storeVars, remote, queueVars,
                 inflight, drainVars>>
  /\ UNCHANGED extVars

\* (!x.lastSyncedAt || Date.now() - x.lastSyncedAt > 30000)
IsStale(rec, t) ==
  \/ "lastSyncedAt" \notin DOMAIN rec
  \/ rec.lastSyncedAt = 0
  \/ t - rec.lastSyncedAt > StaleMs

\* local-utils.ts loadGame, up to `await getDoc(...)`. Its module flag
\* isFirebaseConnected is only cleared by local-utils' own create/update,
\* so shouldSync is isOnline && stale.
LegacyLoadGameStart(g) ==
  /\ loading = {}
  /\ g < nextId
  /\ IF user = "anon"
     THEN IF g \in DOMAIN hybridGames /\ isOnline /\ IsStale(hybridGames[g], now)
          THEN loading' = {LoadOp(g, "local-utils", "hybrid", TRUE, hybridGames[g])}
          ELSE UNCHANGED loading
     ELSE IF g \in DOMAIN localGames
          THEN IF isOnline /\ IsStale(localGames[g], now)
               THEN loading' = {LoadOp(g, "local-utils", "reg", TRUE, localGames[g])}
               ELSE UNCHANGED loading
          ELSE loading' = {LoadOp(g, "local-utils", "reg", FALSE, NoRecord)}
  /\ returned' =
       IF loading' = {}
       THEN IF user = "anon" THEN LocalRead(g) ELSE ReturnedGame(g, localGames[g])
       ELSE Nothing
  /\ last' = "legacyLoadGame"
  /\ UNCHANGED <<envVars, nextId, nUpdates, storeVars, remote, queueVars,
                 inflight, drainVars>>
  /\ UNCHANGED extVars

\* firebase-utils.ts: firebaseGame.version > (localGame.version || 0)
RemoteIsNewer(fb, seen) ==
  VersionOr0(fb) # 0 /\ VersionOr0(fb) > VersionOr0(seen)

\* local-utils.ts: local.version && (!fb.version || local.version > fb.version)
LocalIsNewer(fb, seen) ==
  VersionOr0(seen) # 0 /\ (VersionOr0(fb) = 0 \/ VersionOr0(seen) > VersionOr0(fb))

\* what firebase-utils.ts loadGame writes once the remote read resolved
LoadMerge(store, l, fb, t) ==
  IF l.hasLocal
  THEN IF RemoteIsNewer(fb, l.seen)
       THEN updateLocalGame(store, l.g, Merge(fb, [lastSyncedAt |-> t]))
       ELSE store
  ELSE Put(store, l.g, Merge(fb, [lastSyncedAt |-> t]))

\* the items it passes to saveSyncQueue: none
LoadEnqueue(l, fb, t) == {}

\* what local-utils.ts loadGame writes to the registered family
LegacyLoadMerge(store, l, fb, t) ==
  IF l.hasLocal
  THEN IF RemoteIsNewer(fb, l.seen)
       THEN Put(store, l.g, Merge(fb, [lastSyncedAt |-> t]))
       ELSE store
  ELSE Put(store, l.g, Merge(fb, [lastSyncedAt |-> t, version |-> VersionOr1(fb)]))

\* ... to the hybrid family
LegacyLoadMergeHybrid(store, l, fb, t) ==
  IF RemoteIsNewer(fb, l.seen)
  THEN updateHybridGuestGame(store, l.g,
         Merge(fb, [lastSyncedAt |-> t, version |-> VersionOr1(fb)]), t)
  ELSE store

\* ... and the items it passes to saveSyncQueue
LegacyLoadEnqueue(l, fb, t) ==
  IF l.hasLocal /\ ~RemoteIsNewer(fb, l.seen) /\ LocalIsNewer(fb, l.seen)
  THEN {UpdateItem(l.g, l.seen, t, l.seen.version)}
  ELSE {}

\* the remote read has settled: "read" (connected, getDoc resolved) or
\* "fail" (not connected, or getDoc threw)
LoadGameFinish(l, out) ==
  /\ l \in loading
  /\ loading' = {}
  /\ out \in {"read", "fail"}
  /\ out = "read" => isOnline
  /\ IF out = "read" /\ l.g \in DOMAIN remote
     THEN /\ l.impl = "firebase-utils" => user = "reg"
          /\ IF l.impl = "firebase-utils"
             THEN /\ localGames' = LoadMerge(localGames, l, remote[l.g], now)
                  /\ EnqueueAll(LoadEnqueue(l, remote[l.g], now))
                  /\ UNCHANGED hybridGames
             ELSE /\ localGames' =
                       IF l.fam = "reg"
                       THEN LegacyLoadMerge(localGames, l, remote[l.g], now)
                       ELSE localGames
                  /\ hybridGames' =
                       IF l.fam = "hybrid"
                       THEN LegacyLoadMergeHybrid(hybridGames, l, remote[l.g], now)
                       ELSE hybridGames
                  /\ EnqueueAll(LegacyLoadEnqueue(l, remote[l.g], now))
     ELSE UNCHANGED <<localGames, hybridGames, queueVars>>
  /\ last' = IF out = "read" THEN "loadGameRead" ELSE "loadGameLocal"
  /\ returned' =
       IF out = "read" /\ l.g \in DOMAIN remote
          /\ (~l.hasLocal \/ RemoteIsNewer(remote[l.g], l.seen))
       THEN ReturnedGame(l.g, remote[l.g])
       ELSE IF l.hasLocal THEN ReturnedGame(l.g, l.seen) ELSE ReturnedNull
  /\ UNCHANGED <<envVars, nextId, nUpdates, guestGames, remote, inflight,
                 drainVars>>
  /\ UNCHANGED extVars

\* ---------------------------------------------------------- getUserGames
\* teamA: { name: fbGame.teamA }
WrapName(t) == IF t = "str" THEN "obj" ELSE "nested"

\* the minimal record saved for a remote game absent from the local list
MinimalLocalGame(fb) ==
  [teamA |-> WrapName(fb.teamA), ownerId |-> fb.ownerId,
   settings |-> "default", sharePublic |-> FALSE, state |-> InitialState]

\* the merge of one remote document into the registered family
ListMerge(store, g, fb) ==
  IF g \in DOMAIN store
  THEN updateLocalGame(store, g, Merge(fb, [teamA |-> WrapName(fb.teamA)]))
  ELSE Put(store, g, MinimalLocalGame(fb))

OwnedRemote == {g \in DOMAIN remote : remote[g].ownerId = RegUid}

\* getUserGames of a registered user whose query resolved
GetUserGames ==
  /\ user = "reg"
  /\ isOnline
  /\ OwnedRemote # {}
  /\ localGames' =
       [g \in (DOMAIN localGames) \cup OwnedRemote |->
          IF g \in OwnedRemote
          THEN ListMerge(localGames, g, remote[g])[g]
          ELSE localGames[g]]
  /\ last' = "getUserGames"
  /\ returned' = Nothing
  /\ UNCHANGED <<envVars, nextId, nUpdates, guestGames, hybridGames, remote,
                 queueVars, inflight, loading, drainVars>>
  /\ UNCHANGED extVars

\* ------------------------------------------------------------------ peer
\* another device of the same owner runs updateGame on a game it has in
\* sync: the remote document moves one version ahead
PeerScores == MaxData + 1

PeerWrite(g) ==
  /\ g \in DOMAIN remote
  /\ nUpdates < MaxUpdates
  /\ nUpdates' = nUpdates + 1
  /\ remote' = updateDoc(remote, g, ScorerUpdates(PeerScores),
                         VersionOr0(remote[g]) + 1, now)
  /\ last' = "peer"
  /\ returned' = Nothing
  /\ UNCHANGED <<envVars, nextId, storeVars, queueVars, inflight, loading,
                 drainVars>>
  /\ UNCHANGED extVars

\* --------------------------------------------- scorer page: debounced sync
DebounceMs == 2000   \* the delay of debouncedSync's setTimeout
PageTickMs == 1000   \* the interval of the page's clock
MaxPageTicks == 5    \* page clock advances in one behaviour
MaxPageData == 2     \* distinct payloads a scorer-page mutation can carry
PageGame == 1        \* the id the scorer page is open on (useParams)

PageDataSet == 1..MaxPageData

\* time passes while the page is open (calls may be pending)
PageTick ==
  /\ now + PageTickMs <= StartMs + MaxPageTicks * PageTickMs
  /\ now' = now + PageTickMs
  /\ last' = "pageTick"
  /\ returned' = Nothing
  /\ UNCHANGED <<user, isOnline, nextId, nUpdates, storeVars, remote, queueVars,
                 inflight, loading, drainVars, extVars>>

\* updateGameOptimized on a hybrid game: the local write, then
\* debouncedSync(gameId, updates): clearTimeout, pendingSyncRef.current =
\* updates, setTimeout(..., 2000)
UpdateGameOptimized(d) ==
  /\ user = "anon"
  /\ PageGame \in DOMAIN hybridGames
  /\ nUpdates < MaxUpdates
  /\ nUpdates' = nUpdates + 1
  /\ hybridGames' =
       updateHybridGuestGame(hybridGames, PageGame, ScorerUpdates(d), now)
  /\ syncTimeout' = now + DebounceMs
  /\ pendingSync' = ScorerUpdates(d)
  /\ mutated' = [updates |-> ScorerUpdates(d), at |-> now]
  /\ last' = "updateGameOptimized"
  /\ returned' = ReturnedGame(PageGame, hybridGames'[PageGame])
  /\ UNCHANGED <<envVars, nextId, guestGames, localGames, remote, queueVars,
                 inflight, loading, drainVars, syncing, deleting, clockVars, auxVars>>

\* updateGameOptimized on a guest game that has no hybrid record: the
\* guest record is loaded and merged, and the merged game is handed to
\* updateHybridGuestGame (the `typeof ... === 'function'` test always
\* holds), whose result is what the mutation handlers get back
MergedGuestGame(game, updates) ==
  IF "state" \in DOMAIN updates
  THEN Merge(game, [state |-> Merge(game.state, updates.state)])
  ELSE game

UpdateGameOptimizedGuest(d) ==
  /\ user = "anon"
  /\ PageGame \notin DOMAIN hybridGames
  /\ nUpdates < MaxUpdates
  /\ nUpdates' = nUpdates + 1
  /\ IF PageGame \in DOMAIN guestGames
     THEN LET mergedGame ==
                MergedGuestGame(guestGames[PageGame], ScorerUpdates(d))
          IN  hybridGames' =
                updateHybridGuestGame(hybridGames, PageGame, mergedGame, now)
     ELSE UNCHANGED hybridGames
  /\ returned' =
       IF PageGame \in DOMAIN hybridGames'
       THEN ReturnedGame(PageGame, hybridGames'[PageGame])
       ELSE ReturnedNull
  /\ mutated' = [updates |-> ScorerUpdates(d), at |-> now]
  /\ last' = "updateGameOptimizedGuest"
  /\ UNCHANGED <<envVars, nextId, guestGames, localGames, remote, queueVars,
                 inflight, loading, drainVars, syncTimeout, pendingSync,
                 syncing, deleting, clockVars, auxVars>>

\* the timer's callback, up to its `await updateGame(gameId,
\* pendingSyncRef.current)`; with nothing pending it does nothing
SyncTimeoutFires ==
  /\ syncTimeout # NoTimer
  /\ now >= syncTimeout
  /\ syncTimeout' = NoTimer
  /\ IF pendingSync # NoPending
     THEN /\ Cardinality(inflight) < MaxInflight
          /\ UpdateHybridStart(PageGame, pendingSync)
          /\ syncing' = syncing \cup (inflight' \ inflight)
     ELSE /\ returned' = Nothing
          /\ UNCHANGED <<storeVars, inflight, syncing>>
  /\ last' = "debouncedSync"
  /\ UNCHANGED <<envVars, nextId, nUpdates, remote, queueVars, loading,
                 drainVars, pendingSync, mutated, deleting, clockVars, auxVars>>

\* ------------------------------------------------------- specifications
SyncStep ==
  \/ Tick
  \/ GoOffline
  \/ GoOnline
  \/ \E g \in Games, d \in DataSet : UpdateGameStart(g, d)
  \/ \E op \in inflight, out \in {"ok", "fail"} : UpdateGameFinish(op, out)
  \/ \E out \in {"ok", "fail"} : DrainStep(out)
  \/ DrainFinish

\* a session that creates games, updates them and drains the Sync Queue
Next ==
  \/ SyncStep
  \/ \E gd \in GameDataSet, out \in CreateOutcomes : CreateGame(gd, out)

Spec == Init /\ [][Next]_vars

\* a session on one game that was created and synced earlier, with the
\* read paths: loadGame (both implementations), getUserGames, and another
\* device writing to the remote document
InitLoad ==
  /\ user \in {"anon", "reg"}
  /\ isOnline = TRUE
  /\ now = StartMs
  /\ nextId = 2
  /\ nUpdates = 0
  /\ guestGames = <<>>
  /\ \E gd \in {x \in GameDataSet : x.sharePublic} :
       IF user = "reg"
       THEN /\ localGames \in {<<>>, Put(<<>>, 1, LocalRecord(gd, StartMs))}
            /\ hybridGames = <<>>
            /\ remote = Put(<<>>, 1, Merge(RemoteRecord(gd, StartMs), SummaryFields))
       ELSE /\ localGames = <<>>
            /\ hybridGames =
                 updateHybridGuestGame(Put(<<>>, 1, HybridRecord(gd, StartMs)), 1,
                                       [lastSyncedAt |-> StartMs], StartMs)
            /\ remote = Put(<<>>, 1, GuestRemoteRecord(gd, StartMs))
  /\ queue = <<>>
  /\ enqueued = <<>>
  /\ inflight = {}
  /\ loading = {}
  /\ drainActive = FALSE
  /\ drainSnap = <<>>
  /\ drainIdx = 0
  /\ drainFailed = {}
  /\ last = "init"
  /\ returned = Nothing
  /\ ExtInit

NextLoad ==
  \/ SyncStep
  \/ \E g \in Games : LoadGameStart(g)
  \/ \E g \in Games : LegacyLoadGameStart(g)
  \/ \E l \in loading, out \in {"read", "fail"} : LoadGameFinish(l, out)
  \/ GetUserGames
  \/ \E g \in Games : PeerWrite(g)

SpecLoad == InitLoad /\ [][NextLoad]_vars

\* --------------------------------------------- the Sync Queue on its own
\* saveSyncQueue applied to queues of any length up to the cap. A queue of
\* n games enqueued one per millisecond is what n failed writes leave.
QueueGames == 2      \* game ids that enqueue during the behaviour
QueueFill == 2       \* how far below the cap the initial queue may start

Backlog(n) ==
  [k \in 1..n |-> UpdateItem(QueueGames + k, ScorerUpdates(0), k, 2)]

\* timestamps a caller can pass: Date.now() before, within and after the
\* backlog's (the device clock can be set back)
QueueStamps == {0, SyncQueueCap \div 2, SyncQueueCap + 1}

QueueItems ==
  {UpdateItem(g, ScorerUpdates(0), t, 2) : g \in 1..QueueGames, t \in QueueStamps}
    \cup {CreateItem(g, [state |-> InitialState], t) :
             g \in 1..QueueGames, t \in QueueStamps}

InitQueue ==
  /\ user = "reg"
  /\ isOnline = FALSE
  /\ now = StartMs
  /\ nextId = 1
  /\ nUpdates = 0
  /\ guestGames = <<>>
  /\ hybridGames = <<>>
  /\ localGames = <<>>
  /\ remote = <<>>
  /\ \E n \in {0} \cup ((SyncQueueCap - QueueFill)..SyncQueueCap) :
       /\ queue = Backlog(n)
       /\ enqueued = [g \in (QueueGames + 1)..(QueueGames + n) |->
                        Backlog(n)[g - QueueGames]]
  /\ inflight = {}
  /\ loading = {}
  /\ drainActive = FALSE
  /\ drainSnap = <<>>
  /\ drainIdx = 0
  /\ drainFailed = {}
  /\ last = "init"
  /\ returned = Nothing
  /\ ExtInit

SaveSyncQueue(item) ==
  /\ Enqueue(item)
  /\ last' = "saveSyncQueue"
  /\ returned' = Nothing
  /\ UNCHANGED <<envVars, nextId, nUpdates, storeVars, remote, inflight,
                 loading, drainVars>>
  /\ UNCHANGED extVars

NextQueue == \E item \in QueueItems : SaveSyncQueue(item)

SpecQueue == InitQueue /\ [][NextQueue]_vars

\* --------------------------------------------- the scorer page's debounce
\* an anonymous user scoring a hybrid game that was created and synced
\* earlier; UpdateGameStart is the page's periodic and manual sync
InitDebounce ==
  /\ user = "anon"
  /\ isOnline = TRUE
  /\ now = StartMs
  /\ nextId = 2
  /\ nUpdates = 0
  /\ guestGames = <<>>
  /\ localGames = <<>>
  /\ \E gd \in {x \in GameDataSet : x.sharePublic} :
       /\ hybridGames =
            updateHybridGuestGame(Put(<<>>, PageGame, HybridRecord(gd, StartMs)),
                                  PageGame, [lastSyncedAt |-> StartMs], StartMs)
       /\ remote = Put(<<>>, PageGame, GuestRemoteRecord(gd, StartMs))
  /\ queue = <<>>
  /\ enqueued = <<>>
  /\ inflight = {}
  /\ loading = {}
  /\ drainActive = FALSE
  /\ drainSnap = <<>>
  /\ drainIdx = 0
  /\ drainFailed = {}
  /\ last = "init"
  /\ returned = Nothing
  /\ ExtInit

NextDebounce ==
  \/ PageTick
  \/ GoOffline
  \/ GoOnline
  \/ \E d \in PageDataSet : UpdateGameOptimized(d)
  \/ SyncTimeoutFires
  \/ \E d \in DataSet : UpdateGameStart(PageGame, d)
  \/ \E op \in inflight, out \in {"ok", "fail"} : UpdateGameFinish(op, out)

SpecDebounce == InitDebounce /\ [][NextDebounce]_vars

\* a guest's device: games are created (shared or not), the scorer page of
\* the first game mutates it, and the game is loaded again
InitGuestPage == Init /\ user = "anon"

NextGuestPage ==
  \/ PageTick
  \/ \E gd \in GameDataSet, out \in CreateOutcomes : CreateGame(gd, out)
  \/ \E d \in PageDataSet : UpdateGameOptimized(d)
  \/ \E d \in PageDataSet : UpdateGameOptimizedGuest(d)
  \/ SyncTimeoutFires
  \/ \E op \in inflight, out \in {"ok", "fail"} : UpdateGameFinish(op, out)
  \/ LoadGameStart(PageGame)

SpecGuestPage == InitGuestPage /\ [][NextGuestPage]_vars

\* ------------------------------------------------ sharing, reading, deleting
\* AuthContext signIn: an anonymous user signs in with an account; nothing
\* in localStorage is cleared
SignIn ==
  /\ user = "anon"
  /\ user' = "reg"
  /\ last' = "signIn"
  /\ returned' = Nothing
  /\ UNCHANGED <<isOnline, now, nextId, nUpdates, storeVars, remote, queueVars,
                 inflight, loading, drainVars, extVars>>

\* a device used by a guest who then signs in: games are created and
\* updated under either identity, the connection comes and goes, and the
\* queue is drained
InitIdentity == Init /\ user = "anon"

NextIdentity ==
  \/ SyncStep
  \/ SignIn
  \/ \E gd \in GameDataSet, out \in CreateOutcomes : CreateGame(gd, out)

SpecIdentity == InitIdentity /\ [][NextIdentity]_vars

\* the game data the new-game page builds: sharePublic is always true
NewGameData == CHOOSE gd \in GameDataSet : gd.sharePublic

MaxShareGames == 1   \* games created in a session of SpecShare
MaxShareUpdates == 2 \* updateGame calls in a session of SpecShare

\* createGameHandler of the new-game page
CreateGameHandler(out) ==
  /\ user # "none"
  /\ nextId <= MaxShareGames
  /\ CreateGame(NewGameData, out)

\* createGame called with either setting of sharePublic
CreateGameShare(gd, out) ==
  /\ nextId <= MaxShareGames
  /\ CreateGame(gd, out)

\* updateGame(gameId, {sharePublic: sp})
SharingUpdates(sp) == [sharePublic |-> sp]

SetSharing(g, sp) ==
  /\ Cardinality(inflight) < MaxInflight
  /\ nUpdates < MaxShareUpdates
  /\ nUpdates' = nUpdates + 1
  /\ IF user = "anon"
     THEN CASE g \in DOMAIN hybridGames -> UpdateHybridStart(g, SharingUpdates(sp))
            [] g \in DOMAIN guestGames /\ g \notin DOMAIN hybridGames ->
                 UpdateGuestStart(g, SharingUpdates(sp))
            [] OTHER -> FALSE
     ELSE /\ g \in DOMAIN localGames
          /\ UpdateRegisteredStart(g, SharingUpdates(sp))
  /\ last' = "updateGame"
  /\ UNCHANGED <<envVars, nextId, remote, queueVars, loading, drainVars, extVars>>

\* updateGame called by the scorer page
UpdateGameShare(g, d) ==
  /\ nUpdates < MaxShareUpdates
  /\ UpdateGameStart(g, d)

\* (x.flag): a missing flag reads as false
Flag(rec, k) == k \in DOMAIN rec /\ rec[k] = TRUE

\* getPublicGame up to `await getDoc(...)`; any visitor may call it
GetPublicGameStart(g) ==
  /\ loading = {}
  /\ g < nextId
  /\ loading' = {LoadOp(g, "getPublicGame", "public", FALSE, NoRecord)}
  /\ last' = "getPublicGameStart"
  /\ returned' = Nothing
  /\ UNCHANGED <<envVars, nextId, nUpdates, storeVars, remote, queueVars,
                 inflight, drainVars, extVars>>

\* what getPublicGame returns for a document that exists
PublicDoc(g, fb) ==
  IF Flag(fb, "sharePublic") \/ Flag(fb, "isPubliclyViewable")
  THEN ReturnedGame(g, fb)
  ELSE ReturnedNull

\* ... and for one it could not read: the device's own shared records
PublicLocal(g) ==
  IF g \in DOMAIN hybridGames /\ Flag(hybridGames[g], "sharePublic")
  THEN ReturnedGame(g, Merge(hybridGames[g], [sharePublic |-> TRUE]))
  ELSE IF g \in DOMAIN guestGames /\ Flag(guestGames[g], "sharePublic")
  THEN ReturnedGame(g, Merge(guestGames[g], [sharePublic |-> TRUE]))
  ELSE ReturnedNull

\* the read (and its retry) has settled: "read" or "fail"
GetPublicGameFinish(l, out) ==
  /\ l \in loading
  /\ l.impl = "getPublicGame"
  /\ loading' = {}
  /\ out \in {"read", "fail"}
  /\ out = "read" => isOnline
  /\ returned' =
       IF out = "read" /\ l.g \in DOMAIN remote
       THEN PublicDoc(l.g, remote[l.g])
       ELSE PublicLocal(l.g)
  /\ last' = "getPublicGame"
  /\ UNCHANGED <<envVars, nextId, nUpdates, storeVars, remote, queueVars,
                 inflight, drainVars, extVars>>

\* the live view's onSnapshot handler on the current document
LiveViewSnapshot(g) ==
  /\ isOnline
  /\ g < nextId
  /\ returned' =
       IF g \in DOMAIN remote /\ Flag(remote[g], "sharePublic")
       THEN ReturnedGame(g, remote[g])
       ELSE ReturnedNull
  /\ last' = "liveView"
  /\ UNCHANGED <<envVars, nextId, nUpdates, storeVars, remote, queueVars,
                 inflight, loading, drainVars, extVars>>

\* ------------------------------------------------------------ deleteGame
ReturnedBool(g, b) == [kind |-> "bool", id |-> g, value |-> b]

\* localStorage.removeItem / deleteDoc
Remove(store, id) == [x \in (DOMAIN store) \ {id} |-> store[x]]

DeleteOp(g, phase, hasLocal, seen) ==
  [g |-> g, phase |-> phase, hasLocal |-> hasLocal, seen |-> seen]

\* deleteGame up to its first await. An anonymous user's call is
\* synchronous: it looks the id up in the guest family only.
DeleteGameStart(g) ==
  /\ g < nextId
  /\ deleting = {}
  /\ CASE user = "none" ->
            /\ returned' = ReturnedBool(g, FALSE)
            /\ UNCHANGED <<guestGames, deleting>>
       [] user = "anon" ->
            /\ guestGames' = Remove(guestGames, g)
            /\ returned' = ReturnedBool(g, g \in DOMAIN guestGames)
            /\ UNCHANGED deleting
       [] OTHER ->
            /\ deleting' =
                 {DeleteOp(g, "loadGame", g \in DOMAIN localGames,
                           IF g \in DOMAIN localGames THEN localGames[g]
                           ELSE NoRecord)}
            /\ returned' = Nothing
            /\ UNCHANGED guestGames
  /\ last' = "deleteGame"
  /\ UNCHANGED <<envVars, nextId, nUpdates, hybridGames, localGames, remote,
                 queueVars, inflight, loading, drainVars, pageVars,
                 clockVars, auxVars>>

\* what the loadGame call inside deleteGame returns
LoadedGame(l, out) ==
  IF out = "read" /\ l.g \in DOMAIN remote
     /\ (~l.hasLocal \/ RemoteIsNewer(remote[l.g], l.seen))
  THEN ReturnedGame(l.g, remote[l.g])
  ELSE IF l.hasLocal THEN ReturnedGame(l.g, l.seen) ELSE ReturnedNull

\* `await loadGame(gameId)` has settled: the ownership check
DeleteGameLoaded(op, out) ==
  /\ op \in deleting
  /\ op.phase = "loadGame"
  /\ out \in {"read", "fail"}
  /\ out = "read" => isOnline
  /\ localGames' =
       IF out = "read" /\ op.g \in DOMAIN remote
       THEN LoadMerge(localGames, op, remote[op.g], now)
       ELSE localGames
  /\ LET game == LoadedGame(op, out)
         owned == /\ game.kind = "game"
                  /\ "ownerId" \in DOMAIN game.game
                  /\ game.game.ownerId = RegUid
     IN  IF owned
         THEN /\ deleting' = {[op EXCEPT !.phase = "deleteDoc"]}
              /\ returned' = Nothing
              /\ last' = "deleteGameOwned"
         ELSE /\ deleting' = {}
              /\ returned' = ReturnedBool(op.g, FALSE)
              /\ last' = "deleteGameRefused"
  /\ UNCHANGED <<envVars, nextId, nUpdates, guestGames, hybridGames, remote,
                 queueVars, inflight, loading, drainVars, pageVars,
                 clockVars, auxVars>>

\* `await deleteDoc(...)` has settled: "ok", then deleteLocalGame; or it
\* threw and deleteGame returns false
DeleteDocSettled(op, out) ==
  /\ op \in deleting
  /\ op.phase = "deleteDoc"
  /\ out \in {"ok", "throw"}
  /\ out = "ok" => isOnline
  /\ deleting' = {}
  /\ IF out = "ok"
     THEN /\ remote' = Remove(remote, op.g)
          /\ localGames' = Remove(localGames, op.g)
     ELSE UNCHANGED <<remote, localGames>>
  /\ returned' = ReturnedBool(op.g, out = "ok")
  /\ last' = IF out = "ok" THEN "deleteGameDone" ELSE "deleteGameFailed"
  /\ UNCHANGED <<envVars, nextId, nUpdates, guestGames, hybridGames,
                 queueVars, inflight, loading, drainVars, pageVars,
                 clockVars, auxVars>>

\* a session with sign-in, sharing, the public read path and deleteGame
NextShare ==
  \/ GoOffline
  \/ GoOnline
  \/ SignIn
  \/ \E gd \in GameDataSet, out \in CreateOutcomes : CreateGameShare(gd, out)
  \/ \E out \in CreateOutcomes : CreateGameHandler(out)
  \/ \E g \in Games, d \in DataSet : UpdateGameShare(g, d)
  \/ \E g \in Games, sp \in BOOLEAN : SetSharing(g, sp)
  \/ \E op \in inflight, out \in {"ok", "fail"} : UpdateGameFinish(op, out)
  \/ \E g \in Games : LoadGameStart(g)
  \/ \E l \in {x \in loading : x.impl = "firebase-utils"},
        out \in {"read", "fail"} : LoadGameFinish(l, out)
  \/ \E g \in Games : GetPublicGameStart(g)
  \/ \E l \in loading, out \in {"read", "fail"} : GetPublicGameFinish(l, out)
  \/ \E g \in Games : LiveViewSnapshot(g)
  \/ \E g \in Games : DeleteGameStart(g)
  \/ \E op \in deleting, out \in {"read", "fail"} : DeleteGameLoaded(op, out)
  \/ \E op \in deleting, out \in {"ok", "throw"} : DeleteDocSettled(op, out)

SpecShare == Init /\ [][NextShare]_vars

\* a registered user's device: games are created, updated and deleted, the
\* connection comes and goes, and the queue is drained
InitDelete == Init /\ user = "reg"

NextDelete ==
  \/ GoOffline
  \/ GoOnline
  \/ \E gd \in GameDataSet, out \in CreateOutcomes : CreateGame(gd, out)
  \/ \E out \in {"ok", "fail"} : DrainStep(out)
  \/ DrainFinish
  \/ \E g \in Games : DeleteGameStart(g)
  \/ \E op \in deleting, out \in {"read", "fail"} : DeleteGameLoaded(op, out)
  \/ \E op \in deleting, out \in {"ok", "throw"} : DeleteDocSettled(op, out)

SpecDelete == InitDelete /\ [][NextDelete]_vars

\* ------------------------------------------------- clock and phase engine
Quarter(i) == [type |-> "quarter", index |-> i]
Break(i) == [type |-> "break", index |-> i]
FullTime == [type |-> "fulltime"]

QuarterSec == 600                \* quarterMin * 60 of the new-game page
BreakSecs == <<180, 300, 180>>   \* [3,5,3] minutes
GraceMs == 5000                  \* graceMs of a phase that is not the final quarter
NoStart == 0                     \* phaseStartedAt: null
ClockStart == 10000              \* Date.now() when the scorer page mounts

\* the settings the new-game page builds for n quarters
Settings(n) ==
  [numQuarters |-> n, quarterDurationSec |-> QuarterSec,
   breakDurationsSec |-> SubSeq(BreakSecs, 1, n - 1)]

Max(a, b) == IF a >= b THEN a ELSE b

\* breakDurationsSec[phase.index - 1] of the 0-based array is element
\* phase.index of the sequence
phaseDurationMs(phase, settings) ==
  IF phase.type = "quarter" THEN settings.quarterDurationSec * 1000
  ELSE IF phase.type = "break"
  THEN settings.breakDurationsSec[phase.index] * 1000
  ELSE 0

\* a successor function that goes from quarter to quarter
nextPhaseSkipsBreak(phase, settings) ==
  IF phase.type = "quarter"
  THEN IF phase.index < settings.numQuarters
       THEN Quarter(phase.index + 1)
       ELSE FullTime
  ELSE IF phase.type = "break" THEN Quarter(phase.index + 1)
  ELSE phase

nextPhase(phase, settings) ==
  IF phase.type = "quarter"
  THEN IF phase.index < settings.numQuarters
       THEN Break(phase.index)
       ELSE FullTime
  ELSE IF phase.type = "break" THEN Quarter(phase.index + 1)
  ELSE phase

\* updateRemaining of usePhaseTimer at time t
updateRemaining(st, duration, t) ==
  LET totalElapsed ==
        IF st.isRunning /\ st.phaseStartedAt # NoStart
        THEN st.elapsedMs + Max(0, t - st.phaseStartedAt)
        ELSE st.elapsedMs
      remaining == Max(0, duration - totalElapsed)
  IN  [remainingMs |-> remaining, isExpired |-> remaining = 0]

\* usePhaseTimer as the scorer page calls it
PhaseTimer(g, t) ==
  updateRemaining(g.state, phaseDurationMs(g.state.phase, g.settings), t)

\* the live view's timer effect (app/view/[id]/page.tsx)
ViewLeft(g, t) ==
  LET duration == phaseDurationMs(g.state.phase, g.settings)
      runningSince ==
        IF g.state.isRunning /\ g.state.phaseStartedAt # NoStart
        THEN g.state.phaseStartedAt ELSE NoStart
      elapsed ==
        IF runningSince # NoStart
        THEN g.state.elapsedMs + (t - runningSince)
        ELSE g.state.elapsedMs
  IN  Max(0, duration - elapsed)

\* the older live view's timer effect
LegacyViewLeft(g, t) ==
  IF g.state.phase.type = "fulltime" THEN 0
  ELSE LET duration == phaseDurationMs(g.state.phase, g.settings)
           elapsed ==
             IF g.state.isRunning /\ g.state.phaseStartedAt # NoStart
             THEN g.state.elapsedMs + Max(0, t - g.state.phaseStartedAt)
             ELSE g.state.elapsedMs
       IN  Max(0, duration - elapsed)

MaxClockSteps == 5   \* clock advances of the scorer page in one behaviour

\* what the clock operations leave alone
syncVars == <<user, isOnline, nextId, storeVars, remote, queueVars, inflight,
              loading, drainVars, pageVars, deleting, callArgs, liveView>>

\* setGame after a mutation, with the page's reload of the stored game that
\* follows it: the timer hook recomputes, the effects run
SetState(st) ==
  /\ scorerGame' = [scorerGame EXCEPT !.state = st]
  /\ timer' = PhaseTimer(scorerGame', now)
  /\ effectDue' = TRUE

MaxClockUpdates == 2   \* scorer-page mutations in one behaviour

Mutation(st, label) ==
  /\ nUpdates' = nUpdates + 1
  /\ SetState(st)
  /\ beforeGoal' = IF label = "score" THEN scorerGame.state ELSE beforeGoal
  /\ last' = label
  /\ returned' = Nothing
  /\ UNCHANGED <<now, syncVars, left, leftLegacy, clockSteps>>

\* startPause: resume keeps the carried time; pause adds the running
\* interval to it
StartPause ==
  LET st == scorerGame.state
      startedAt == IF st.phaseStartedAt # NoStart THEN st.phaseStartedAt ELSE now
  IN  /\ st.phase.type # "fulltime"
      /\ IF ~st.isRunning
         THEN Mutation(Merge(st, [isRunning |-> TRUE, phaseStartedAt |-> now]),
                       "resume")
         ELSE Mutation(Merge(st, [isRunning |-> FALSE,
                                  elapsedMs |-> st.elapsedMs + (now - startedAt)]),
                       "pause")

ResetTimer ==
  Mutation(Merge(scorerGame.state, [isRunning |-> FALSE, elapsedMs |-> 0]),
           "resetTimer")

\* the state advancePhase passes to updateGameOptimized
Advanced(st, settings, t) ==
  LET np == nextPhase(st.phase, settings)
      shouldAutoStart ==
        \/ st.phase.type = "quarter" /\ np.type = "break"
        \/ st.phase.type = "break" /\ np.type = "quarter"
  IN  Merge(st, [phase |-> np, isRunning |-> shouldAutoStart, elapsedMs |-> 0,
                 phaseStartedAt |-> t])

\* the END button: shown while the clock is stopped, not at full time
AdvancePhase ==
  /\ ~scorerGame.state.isRunning
  /\ scorerGame.state.phase.type # "fulltime"
  /\ Mutation(Advanced(scorerGame.state, scorerGame.settings, now),
              "advancePhase")

\* one run of the auto-advance effect
PhaseEffect ==
  LET st == scorerGame.state
      isFinalQuarter ==
        st.phase.type = "quarter" /\ st.phase.index = scorerGame.settings.numQuarters
      graceMs == IF isFinalQuarter THEN 0 ELSE GraceMs
      elapsed == now - st.phaseStartedAt
      expectedDuration == phaseDurationMs(st.phase, scorerGame.settings)
  IN  /\ effectDue
      /\ IF /\ timer.isExpired /\ st.isRunning /\ st.phaseStartedAt # NoStart
            /\ elapsed >= expectedDuration + graceMs
         THEN /\ SetState(Advanced(st, scorerGame.settings, now))
              /\ last' = "autoAdvance"
         ELSE /\ effectDue' = FALSE
              /\ last' = "phaseEffect"
              /\ UNCHANGED <<scorerGame, timer>>
      /\ returned' = Nothing
      /\ UNCHANGED <<now, nUpdates, syncVars, left, leftLegacy, clockSteps,
                     beforeGoal>>

\* time passes: one interval of the timer hook, or the wait until one
\* interval before the phase would run out; the hook's interval polls
\* while the clock runs. A scheduled effect runs before time passes.
ClockStep(ms) ==
  /\ ~effectDue
  /\ clockSteps < MaxClockSteps
  /\ ms > 0
  /\ clockSteps' = clockSteps + 1
  /\ now' = now + ms
  /\ timer' =
       IF scorerGame.state.isRunning /\ scorerGame.state.phaseStartedAt # NoStart
       THEN PhaseTimer(scorerGame, now')
       ELSE timer
  /\ effectDue' = (timer'.isExpired # timer.isExpired)
  /\ last' = "clockStep"
  /\ returned' = Nothing
  /\ UNCHANGED <<nUpdates, syncVars, scorerGame, left, leftLegacy, beforeGoal>>

\* the carried times a stored game can hold
ElapsedSet == {0, 60000}

\* one interval; or all but the last interval of what the timer shows; or,
\* once it shows nothing, all but the last interval of the grace window
ElapseSet ==
  {PageTickMs} \cup
    (IF timer.isExpired THEN {GraceMs - PageTickMs}
     ELSE {timer.remainingMs - PageTickMs})

\* the page becomes visible again: the game is reloaded and set, equal in
\* content, new in identity, so the effect runs again
Reload ==
  /\ ~effectDue
  /\ effectDue' = TRUE
  /\ last' = "reload"
  /\ returned' = Nothing
  /\ UNCHANGED <<now, nUpdates, syncVars, scorerGame, timer, left, leftLegacy,
                 clockSteps, beforeGoal>>

\* a spectator's device reads its own clock
SkewSet == {0 - 2000, 0}

ReturnedClock(t) == [kind |-> "clock", at |-> t]

\* one interval of the live views' timer effects
ViewTick(skew) ==
  /\ left' = ViewLeft(scorerGame, now + skew)
  /\ leftLegacy' = LegacyViewLeft(scorerGame, now + skew)
  /\ last' = "viewTick"
  /\ returned' = ReturnedClock(now + skew)
  /\ UNCHANGED <<now, nUpdates, syncVars, scorerGame, timer, effectDue,
                 clockSteps, beforeGoal>>

NumQuartersSet == {2, 4}

Phases(n) ==
  {Quarter(i) : i \in 1..n} \cup {Break(i) : i \in 1..(n - 1)} \cup {FullTime}

\* the scorer page has mounted on a stored game
InitClock ==
  /\ user = "anon"
  /\ isOnline = TRUE
  /\ now = ClockStart
  /\ nextId = 2
  /\ nUpdates = 0
  /\ guestGames = <<>>
  /\ hybridGames = <<>>
  /\ localGames = <<>>
  /\ remote = <<>>
  /\ queue = <<>>
  /\ enqueued = <<>>
  /\ inflight = {}
  /\ loading = {}
  /\ drainActive = FALSE
  /\ drainSnap = <<>>
  /\ drainIdx = 0
  /\ drainFailed = {}
  /\ last = "init"
  /\ returned = Nothing
  /\ PageInit
  /\ AuxIdle
  /\ \E n \in NumQuartersSet : \E ph \in Phases(n), r \in BOOLEAN,
        sa \in {NoStart, ClockStart, ClockStart + 2 * PageTickMs},
        e \in ElapsedSet :
       \* the clock runs only in a quarter or break that was started
       /\ r => (ph # FullTime /\ sa # NoStart)
       /\ scorerGame = [settings |-> Settings(n),
                        state |-> [phase |-> ph, isRunning |-> r,
                                   phaseStartedAt |-> sa, elapsedMs |-> e]]
  /\ timer = PhaseTimer(scorerGame, now)
  /\ effectDue = timer.isExpired
  /\ left = 0
  /\ leftLegacy = 0
  /\ clockSteps = 0

NextClock ==
  \/ \E ms \in ElapseSet : ClockStep(ms)
  \/ nUpdates < MaxClockUpdates /\ StartPause
  \/ nUpdates < MaxClockUpdates /\ ResetTimer
  \/ nUpdates < MaxClockUpdates /\ AdvancePhase
  \/ PhaseEffect
  \/ Reload
  \/ \E skew \in SkewSet : ViewTick(skew)

SpecClock == InitClock /\ [][NextClock]_vars

\* ------------------------------------------- phaseDurationMs on any input
\* a value that may be undefined or null
Absent == [has |-> FALSE]
Present(v) == [has |-> TRUE, v |-> v]

\* what a call produces: a number, NaN, or an exception
Num(n) == [kind |-> "number", value |-> n]
NaN == [kind |-> "NaN"]
Throws == [kind |-> "throws", error |-> "TypeError"]

\* phaseDurationMs(phase, settings) on arguments and fields that may be
\* missing: undefined * 1000 is NaN, an index outside an array reads
\* undefined, an index into undefined throws
phaseDurationMsCall(phase, settings) ==
  IF ~phase.has \/ ~settings.has THEN Num(0)
  ELSE IF phase.v.type = "quarter"
  THEN IF settings.v.quarterDurationSec.has
       THEN Num(settings.v.quarterDurationSec.v * 1000)
       ELSE NaN
  ELSE IF phase.v.type = "break"
  THEN IF ~settings.v.breakDurationsSec.has THEN Throws
       ELSE IF phase.v.index \in DOMAIN settings.v.breakDurationsSec.v
       THEN Num(settings.v.breakDurationsSec.v[phase.v.index] * 1000)
       ELSE NaN
  ELSE Num(0)

MaxPhaseIndex == 4   \* phase indices 0..MaxPhaseIndex are tried

QuarterSecSet == {300, 600, 900}   \* 5, 10 or 15 minutes

PhaseArgs ==
  {Absent, Present(FullTime)} \cup
    {Present(Quarter(i)) : i \in 0..MaxPhaseIndex} \cup
    {Present(Break(i)) : i \in 0..MaxPhaseIndex}

SettingsArgs ==
  {Absent} \cup
    {Present([quarterDurationSec |-> q, breakDurationsSec |-> b]) :
       q \in {Absent} \cup {Present(x) : x \in QuarterSecSet},
       b \in {Absent} \cup {Present(SubSeq(BreakSecs, 1, n)) : n \in 0..3}}

\* no session: nothing stored, nothing pending
SyncIdle ==
  /\ user = "anon"
  /\ isOnline = TRUE
  /\ now = ClockStart
  /\ nextId = 1
  /\ nUpdates = 0
  /\ guestGames = <<>>
  /\ hybridGames = <<>>
  /\ localGames = <<>>
  /\ remote = <<>>
  /\ queue = <<>>
  /\ enqueued = <<>>
  /\ inflight = {}
  /\ loading = {}
  /\ drainActive = FALSE
  /\ drainSnap = <<>>
  /\ drainIdx = 0
  /\ drainFailed = {}
  /\ last = "init"
  /\ returned = Nothing

InitDuration ==
  /\ SyncIdle
  /\ PageInit
  /\ ClockIdle
  /\ callArgs \in [phase : PhaseArgs, settings : SettingsArgs]
  /\ beforeGoal = NoGame
  /\ liveView = ViewIdle

CallPhaseDuration ==
  /\ last = "init"
  /\ last' = "phaseDurationMs"
  /\ returned' = phaseDurationMsCall(callArgs.phase, callArgs.settings)
  /\ UNCHANGED <<now, nUpdates, syncVars, clockVars, beforeGoal>>

NextDuration == CallPhaseDuration

SpecDuration == InitDuration /\ [][NextDuration]_vars

\* ------------------------------------------------------ scoring controls
Teams == {"A", "B"}
NoGoal == [null |-> TRUE]   \* lastGoal: null

ZeroScores == [A |-> 0, B |-> 0]

\* quarterScores of a new or reset game: keys 1..4 whatever numQuarters is
ZeroQuarterScores == [q \in 1..4 |-> ZeroScores]

\* (state.quarterScores?.[q] || { A: 0, B: 0 })
QuarterScoresOr0(st, q) ==
  IF q \in DOMAIN st.quarterScores THEN st.quarterScores[q] ELSE ZeroScores

\* quarter scores that are never written
KeepQuarterScores(st, q, entry) == st.quarterScores

\* { ...state.quarterScores, [q]: entry }
PutQuarter(st, q, entry) ==
  [x \in (DOMAIN st.quarterScores) \cup {q} |->
     IF x = q THEN entry ELSE st.quarterScores[x]]

Plus(sc, team, d) ==
  [A |-> sc.A + (IF team = "A" THEN d ELSE 0),
   B |-> sc.B + (IF team = "B" THEN d ELSE 0)]

\* a score() that leaves the centre pass where it was
ScoredKeepsCentrePass(st, team, t) ==
  Merge(st,
    [scores |-> Plus(st.scores, team, 1),
     quarterScores |->
       PutQuarter(st, st.phase.index,
                  Plus(QuarterScoresOr0(st, st.phase.index), team, 1)),
     centrePass |-> st.centrePass,
     lastGoal |-> [team |-> team, previousCentrePass |-> st.centrePass,
                   timestamp |-> t]])

\* the state score(team) passes to updateGameOptimized
Scored(st, team, t) ==
  Merge(st,
    [scores |-> Plus(st.scores, team, 1),
     quarterScores |->
       PutQuarter(st, st.phase.index,
                  Plus(QuarterScoresOr0(st, st.phase.index), team, 1)),
     centrePass |-> IF st.centrePass = "A" THEN "B" ELSE "A",
     lastGoal |-> [team |-> team, previousCentrePass |-> st.centrePass,
                   timestamp |-> t]])

\* the +1 GOAL buttons
ScoreGoal(team) ==
  /\ scorerGame.state.isRunning
  /\ scorerGame.state.phase.type = "quarter"
  /\ Mutation(Scored(scorerGame.state, team, now), "score")

\* an undo that leaves the goal on the total
UndoneKeepsScore(st) ==
  LET lastGoal == st.lastGoal
  IN  Merge(st,
        [quarterScores |->
           PutQuarter(st, st.phase.index,
                      Plus(QuarterScoresOr0(st, st.phase.index),
                           lastGoal.team, 0 - 1)),
         centrePass |-> lastGoal.previousCentrePass,
         lastGoal |-> NoGoal])

\* the state the undo branch passes to updateGameOptimized
Undone(st) ==
  LET lastGoal == st.lastGoal
  IN  Merge(st,
        [scores |-> Plus(st.scores, lastGoal.team, 0 - 1),
         quarterScores |->
           PutQuarter(st, st.phase.index,
                      Plus(QuarterScoresOr0(st, st.phase.index),
                           lastGoal.team, 0 - 1)),
         centrePass |-> lastGoal.previousCentrePass,
         lastGoal |-> NoGoal])

\* the UNDO/EDIT button is rendered while the clock runs or in a break
UndoEditShown ==
  scorerGame.state.isRunning \/ scorerGame.state.phase.type = "break"

\* the button outside a break: undo the last goal, if there is one
Undo ==
  /\ UndoEditShown
  /\ scorerGame.state.phase.type # "break"
  /\ IF scorerGame.state.lastGoal # NoGoal
     THEN Mutation(Undone(scorerGame.state), "undo")
     ELSE /\ last' = "undoNothing"
          /\ returned' = Nothing
          /\ UNCHANGED <<now, nUpdates, syncVars, clockVars, beforeGoal>>

MaxEdit == 2   \* the scores typed into the edit prompt are 0..MaxEdit

\* the button in a break: the prompt's two numbers replace the totals
EditScores(a, b) ==
  /\ UndoEditShown
  /\ scorerGame.state.phase.type = "break"
  /\ Mutation(Merge(scorerGame.state,
                    [scores |-> [A |-> a, B |-> b], lastGoal |-> NoGoal]),
              "editScores")

\* the RESET button, active while the clock is stopped
ResetGame ==
  /\ ~scorerGame.state.isRunning
  /\ Mutation(Merge(scorerGame.state,
                    [phase |-> Quarter(1), isRunning |-> FALSE, elapsedMs |-> 0,
                     scores |-> ZeroScores, quarterScores |-> ZeroQuarterScores,
                     centrePass |-> "A", lastGoal |-> NoGoal,
                     phaseStartedAt |-> now]),
              "resetGame")

\* the START/PAUSE button: at full time it leaves for the new-game page
StartPauseButton ==
  IF scorerGame.state.phase.type = "fulltime"
  THEN /\ last' = "startNew"
       /\ returned' = Nothing
       /\ UNCHANGED <<now, nUpdates, syncVars, clockVars, beforeGoal>>
  ELSE StartPause

\* an END button that is active at full time too
EndButtonAlways ==
  /\ ~scorerGame.state.isRunning
  /\ Mutation(Advanced(scorerGame.state, scorerGame.settings, now),
              "advancePhase")

\* the END button
EndButton == AdvancePhase

\* the periodic sync sends the state as it is: updateGame(id, {state})
PeriodicSync ==
  /\ last' = "periodicSync"
  /\ returned' = Nothing
  /\ UNCHANGED <<now, nUpdates, syncVars, clockVars, beforeGoal>>

MaxScoreUpdates == 4   \* scorer-page mutations in one behaviour

\* goals scored in quarter 1 before the page was opened
TallySet == {ZeroScores, [A |-> 2, B |-> 1]}

\* the lastGoal a stored game can hold: none (new game, or after an undo or
\* an edit), or the latest goal of quarter 1, which phase advances keep
LastGoals(tally) ==
  IF tally = ZeroScores THEN {NoGoal}
  ELSE {NoGoal, [team |-> "A", previousCentrePass |-> "A",
                 timestamp |-> ClockStart - PageTickMs]}

\* the scorer page has mounted, one interval after the stored game's
\* phaseStartedAt
InitScore ==
  /\ SyncIdle
  /\ PageInit
  /\ AuxIdle
  /\ \E n \in NumQuartersSet : \E ph \in Phases(n), r \in BOOLEAN,
        cp \in Teams, tally \in TallySet :
       \E lg \in LastGoals(tally) :
       /\ r => ph # FullTime
       /\ lg # NoGoal => cp = "B"
       /\ scorerGame =
            [settings |-> Settings(n),
             state |-> [phase |-> ph, isRunning |-> r,
                        phaseStartedAt |-> ClockStart - PageTickMs,
                        elapsedMs |-> 0, scores |-> tally,
                        quarterScores |->
                          [ZeroQuarterScores EXCEPT ![1] = tally],
                        centrePass |-> cp, lastGoal |-> lg]]
  /\ timer = PhaseTimer(scorerGame, now)
  /\ effectDue = timer.isExpired
  /\ left = 0
  /\ leftLegacy = 0
  /\ clockSteps = 0

NextScore ==
  \/ nUpdates < MaxScoreUpdates /\ \E team \in Teams : ScoreGoal(team)
  \/ nUpdates < MaxScoreUpdates /\ Undo
  \/ nUpdates < MaxScoreUpdates /\ \E a, b \in 0..MaxEdit : EditScores(a, b)
  \/ nUpdates < MaxScoreUpdates /\ ResetGame
  \/ nUpdates < MaxScoreUpdates /\ StartPauseButton
  \/ nUpdates < MaxScoreUpdates /\ EndButton
  \/ PhaseEffect
  \/ Reload
  \/ PeriodicSync

SpecScore == InitScore /\ [][NextScore]_vars

\* -------------------------------------------------------- live view page
\* app/view/[id]/page.tsx open on game PageGame, and the older page
\* (part_005) beside it. liveView holds the component's state (game,
\* gameNotFound, loading), its refs, isMounted of the effect's closure, and
\* what the page has registered with the browser and the remote store:
\* the onSnapshot listeners and the setInterval timers that are still
\* active. Handles are numbered in the order they are handed out.
\* the state convertGuestGameToViewFormat gives a record that has none
DefaultViewState == InitialState

convertGuestGameToViewFormat(guestGame) ==
  LET withState ==
        IF "state" \in DOMAIN guestGame THEN guestGame
        ELSE Merge(guestGame, [state |-> DefaultViewState])
  IN  IF "phase" \in DOMAIN withState.state THEN withState
      ELSE [withState EXCEPT !.state = Merge(@, [phase |-> FirstPhase])]

\* setGame(processedGame) when it differs from the game shown (setting an
\* equal game changes nothing, so lastGameStateRef is not kept)
updateGameState(v, newGame, source) ==
  IF ~v.isMounted THEN v
  ELSE LET processedGame ==
             IF source \in {"local", "hybrid"}
             THEN convertGuestGameToViewFormat(newGame)
             ELSE newGame
       IN  [v EXCEPT !.game = processedGame]

\* loadHybridGuestGame(id) / loadGuestGame(id) found a shared record
SharedHybrid(g) == g \in DOMAIN hybridGames /\ Flag(hybridGames[g], "sharePublic")
SharedGuest(g) == g \in DOMAIN guestGames /\ Flag(guestGames[g], "sharePublic")

\* setGameNotFound(true); setLoading(false)
ShowNotFound(v) == [v EXCEPT !.gameNotFound = TRUE, !.loading = FALSE]

\* setInterval(...) stored in localPollingRef.current
setupLocalPolling(v) ==
  [v EXCEPT !.localPollingRef = v.nextHandle,
            !.intervals = @ \cup {v.nextHandle},
            !.nextHandle = @ + 1]

\* unsubscribeRef.current = onSnapshot(...); kind names the branch of
\* setupRealTimeUpdates the listener was made in
Subscribe(v, kind) ==
  [v EXCEPT !.unsubscribeRef = v.nextHandle,
            !.listeners = @ \cup {[id |-> v.nextHandle, kind |-> kind]},
            !.nextHandle = @ + 1]

\* setupRealTimeUpdates; thrown: enableNetwork or onSnapshot threw
setupRealTimeUpdates(v, g, thrown) ==
  IF SharedHybrid(g)
  THEN LET hybrid == [v EXCEPT !.isHybridGameRef = TRUE]
       IN  IF thrown THEN setupLocalPolling(hybrid)
           ELSE setupLocalPolling(Subscribe(hybrid, "hybrid"))
  ELSE IF SharedGuest(g) THEN setupLocalPolling(v)
  ELSE IF thrown THEN ShowNotFound(v)
  ELSE Subscribe(v, "plain")

\* the effect of the page on mount: loadGameFromFirebase() runs up to
\* `await getPublicGame(id)`, then setupRealTimeUpdates()
ViewMount(thrown) ==
  /\ liveView.phase = "idle"
  /\ liveView' =
       setupRealTimeUpdates(
         [liveView EXCEPT !.phase = "mounted", !.isMounted = TRUE,
                          !.loadPending = TRUE],
         PageGame, thrown)
  /\ last' = "viewMount"
  /\ returned' = Nothing
  /\ UNCHANGED <<envVars, nextId, nUpdates, storeVars, remote, queueVars,
                 inflight, loading, drainVars, pageVars, deleting, clockVars,
                 callArgs, beforeGoal>>

\* what getPublicGame resolves to: out is "read" or "fail" (the read and
\* its retry failed, or no database)
getPublicGame(g, out) ==
  IF out = "read" /\ g \in DOMAIN remote
  THEN PublicDoc(g, remote[g])
  ELSE PublicLocal(g)

\* loadGameFromFirebase after its await (getPublicGame catches every
\* exception, so the catch block of loadGameFromFirebase is not taken)
LoadSettled(v, g, loadedGame) ==
  LET done == [v EXCEPT !.loadPending = FALSE]
  IN  IF loadedGame.kind = "game" /\ v.isMounted
      THEN [updateGameState(done, loadedGame.game, "firebase")
              EXCEPT !.loading = FALSE]
      ELSE IF SharedHybrid(g)
      THEN [updateGameState(done, hybridGames[g], "hybrid")
              EXCEPT !.loading = FALSE, !.isHybridGameRef = TRUE]
      ELSE IF SharedGuest(g)
      THEN [updateGameState(done, guestGames[g], "local")
              EXCEPT !.loading = FALSE]
      ELSE IF v.isMounted THEN ShowNotFound(done)
      ELSE done

ViewLoaded(out) ==
  /\ liveView.loadPending
  /\ out \in {"read", "fail"}
  /\ out = "read" => isOnline
  /\ liveView' = LoadSettled(liveView, PageGame, getPublicGame(PageGame, out))
  /\ last' = "viewLoaded"
  /\ returned' = Nothing
  /\ UNCHANGED <<envVars, nextId, nUpdates, storeVars, remote, queueVars,
                 inflight, loading, drainVars, pageVars, deleting, clockVars,
                 callArgs, beforeGoal>>

\* the snapshot callback of either branch, on the document as it is
OnSnapshot(v, g) ==
  IF g \in DOMAIN remote /\ v.isMounted
  THEN IF Flag(remote[g], "sharePublic")
       THEN updateGameState(v, remote[g], "firebase")
       ELSE ShowNotFound(v)
  ELSE IF v.isMounted THEN ShowNotFound(v)
  ELSE v

\* the older page's snapshot callback
LegacyOnSnapshot(lv, g) ==
  [(IF g \in DOMAIN remote
    THEN IF Flag(remote[g], "sharePublic")
            \/ Flag(remote[g], "isPubliclyViewable")
         THEN IF "state" \notin DOMAIN remote[g]
                 \/ "phase" \notin DOMAIN remote[g].state
              THEN lv
              ELSE [lv EXCEPT !.game = remote[g], !.gameNotFound = FALSE]
         ELSE [lv EXCEPT !.gameNotFound = TRUE]
    ELSE [lv EXCEPT !.gameNotFound = TRUE])
   EXCEPT !.loading = FALSE]

\* the remote store delivers the document to a listener of the page
SnapshotDelivered(l) ==
  /\ l \in liveView.listeners
  /\ isOnline
  /\ liveView' = OnSnapshot(liveView, PageGame)
  /\ last' = "viewSnapshot"
  /\ returned' = Nothing
  /\ UNCHANGED <<envVars, nextId, nUpdates, storeVars, remote, queueVars,
                 inflight, loading, drainVars, pageVars, deleting, clockVars,
                 callArgs, beforeGoal>>

\* the error callback of a listener; the remote store ends a listener it
\* reports an error to
OnSnapshotError(v, l) ==
  LET ended == [v EXCEPT !.listeners = @ \ {l}]
  IN  IF l.kind = "hybrid" THEN setupLocalPolling(ended)
      ELSE IF v.isMounted THEN ShowNotFound(ended)
      ELSE ended

SnapshotError(l) ==
  /\ l \in liveView.listeners
  /\ liveView' = OnSnapshotError(liveView, l)
  /\ last' = "viewSnapshotError"
  /\ returned' = Nothing
  /\ UNCHANGED <<envVars, nextId, nUpdates, storeVars, remote, queueVars,
                 inflight, loading, drainVars, pageVars, deleting, clockVars,
                 callArgs, beforeGoal>>

\* the callback of a polling interval
OnPoll(v, g) ==
  IF ~v.isMounted THEN v
  ELSE IF v.isHybridGameRef
  THEN IF g \in DOMAIN hybridGames
       THEN updateGameState(v, hybridGames[g], "hybrid") ELSE v
  ELSE IF g \in DOMAIN guestGames
       THEN updateGameState(v, guestGames[g], "local") ELSE v

PollTick(i) ==
  /\ i \in liveView.intervals
  /\ liveView' = OnPoll(liveView, PageGame)
  /\ last' = "viewPoll"
  /\ returned' = Nothing
  /\ UNCHANGED <<envVars, nextId, nUpdates, storeVars, remote, queueVars,
                 inflight, loading, drainVars, pageVars, deleting, clockVars,
                 callArgs, beforeGoal>>

\* the cleanup function of the effect
Cleanup(v) ==
  [v EXCEPT !.phase = "torn", !.isMounted = FALSE,
            !.listeners = {l \in @ : l.id # v.unsubscribeRef},
            !.unsubscribeRef = NoHandle,
            !.intervals = @ \ {v.localPollingRef},
            !.localPollingRef = NoHandle]

ViewTeardown ==
  /\ liveView.phase = "mounted"
  /\ liveView' = Cleanup(liveView)
  /\ last' = "viewTeardown"
  /\ returned' = Nothing
  /\ UNCHANGED <<envVars, nextId, nUpdates, storeVars, remote, queueVars,
                 inflight, loading, drainVars, pageVars, deleting, clockVars,
                 callArgs, beforeGoal>>

\* what the page renders: the spinner, the not-found page, or the game
Rendered(v) ==
  IF v.loading THEN "loading"
  ELSE IF v.gameNotFound THEN "notFound"
  ELSE "game"

\* the remote store delivers the document to the older page's listener,
\* which stays subscribed while that page is open
LegacySnapshot ==
  /\ isOnline
  /\ liveView' = [liveView EXCEPT !.legacy = LegacyOnSnapshot(@, PageGame)]
  /\ last' = "legacySnapshot"
  /\ returned' = Nothing
  /\ UNCHANGED <<envVars, nextId, nUpdates, storeVars, remote, queueVars,
                 inflight, loading, drainVars, pageVars, deleting, clockVars,
                 callArgs, beforeGoal>>

\* the documents of a partial or summary-only write by another client:
\* one without state, one whose state has no phase
PartialDocs ==
  {[teamA |-> "obj", sharePublic |-> TRUE],
   [teamA |-> "obj", sharePublic |-> TRUE, state |-> [scores |-> 0]]}

PartialWrite(d) ==
  /\ PageGame \in DOMAIN remote
  /\ nUpdates < MaxShareUpdates
  /\ nUpdates' = nUpdates + 1
  /\ remote' = Put(remote, PageGame, d)
  /\ last' = "partialWrite"
  /\ returned' = Nothing
  /\ UNCHANGED <<envVars, nextId, storeVars, queueVars, inflight, loading,
                 drainVars, extVars>>

\* a device on which games are created, shared and scored while the live
\* view of the first game is opened, fed and closed
NextView ==
  \/ \E gd \in GameDataSet, out \in CreateOutcomes : CreateGameShare(gd, out)
  \/ \E d \in DataSet : UpdateGameShare(PageGame, d)
  \/ \E sp \in BOOLEAN : SetSharing(PageGame, sp)
  \/ \E op \in inflight, out \in {"ok", "fail"} : UpdateGameFinish(op, out)
  \/ \E d \in PartialDocs : PartialWrite(d)
  \/ \E thrown \in BOOLEAN : ViewMount(thrown)
  \/ \E out \in {"read", "fail"} : ViewLoaded(out)
  \/ \E l \in liveView.listeners : SnapshotDelivered(l)
  \/ \E l \in liveView.listeners : SnapshotError(l)
  \/ \E i \in liveView.intervals : PollTick(i)
  \/ ViewTeardown
  \/ LegacySnapshot

SpecView == Init /\ [][NextView]_vars

\* ------------------------------------ update on the three local families
\* updateGuestGame, updateLocalGame and updateHybridGuestGame called on a
\* device that holds game StoredGame in each family and no other game.
StoredGame == 1
MissingGame == 2

Families == {"guest", "local", "hybrid"}

\* the state of the stored game
StoredStates ==
  {[scores |-> tally, centrePass |-> cp, isRunning |-> r, phase |-> FirstPhase] :
     tally \in TallySet, cp \in Teams, r \in BOOLEAN}

StoredRecord(st) ==
  [teamA |-> "obj", settings |-> "chosen", sharePublic |-> FALSE,
   version |-> 1, lastSyncedAt |-> StartMs, state |-> st]

\* {[k]: v} when the field is given, {} when it is not
Field(k, opt) == IF opt.has THEN [x \in {k} |-> opt.v] ELSE <<>>

\* updates.state: any selection of scores, centrePass and isRunning
PartialStates ==
  {Merge(Merge(Field("scores", s), Field("centrePass", c)),
         Field("isRunning", r)) :
     s \in {Absent, Present([A |-> 5, B |-> 3])},
     c \in {Absent} \cup {Present(t) : t \in Teams},
     r \in {Absent, Present(TRUE)}}

\* updates: with a state, or without one
UpdateArgs ==
  {[state |-> ps] : ps \in PartialStates} \cup {[sharePublic |-> TRUE]}

InitMerge ==
  /\ SyncIdle
  /\ PageInit
  /\ ClockIdle
  /\ beforeGoal = NoGame
  /\ liveView = ViewIdle
  /\ callArgs \in [family : Families, id : {StoredGame, MissingGame},
                   updates : UpdateArgs]

\* what an update function returns: the record it saved, or null
UpdateResult(store, updated, id) ==
  IF id \in DOMAIN store THEN ReturnedGame(id, updated[id]) ELSE ReturnedNull

UpdateGuestGameCall ==
  /\ last = "stored"
  /\ callArgs.family = "guest"
  /\ guestGames' = updateLocalGame(guestGames, callArgs.id, callArgs.updates)
  /\ returned' = UpdateResult(guestGames, guestGames', callArgs.id)
  /\ last' = "updateGuestGame"
  /\ UNCHANGED <<envVars, nextId, nUpdates, hybridGames, localGames, remote,
                 queueVars, inflight, loading, drainVars, extVars>>

UpdateLocalGameCall ==
  /\ last = "stored"
  /\ callArgs.family = "local"
  /\ localGames' = updateLocalGame(localGames, callArgs.id, callArgs.updates)
  /\ returned' = UpdateResult(localGames, localGames', callArgs.id)
  /\ last' = "updateLocalGame"
  /\ UNCHANGED <<envVars, nextId, nUpdates, guestGames, hybridGames, remote,
                 queueVars, inflight, loading, drainVars, extVars>>

UpdateHybridGuestGameCall ==
  /\ last = "stored"
  /\ callArgs.family = "hybrid"
  /\ hybridGames' =
       updateHybridGuestGame(hybridGames, callArgs.id, callArgs.updates, now)
  /\ returned' = UpdateResult(hybridGames, hybridGames', callArgs.id)
  /\ last' = "updateHybridGuestGame"
  /\ UNCHANGED <<envVars, nextId, nUpdates, guestGames, localGames, remote,
                 queueVars, inflight, loading, drainVars, extVars>>

\* the game is saved in each family (saveGuestGame, saveLocalGame,
\* saveHybridGuestGame) before the call under study
StoreGame(st) ==
  /\ last = "init"
  /\ guestGames' = Put(guestGames, StoredGame, StoredRecord(st))
  /\ localGames' = Put(localGames, StoredGame, StoredRecord(st))
  /\ hybridGames' = Put(hybridGames, StoredGame, StoredRecord(st))
  /\ nextId' = StoredGame + 1
  /\ last' = "stored"
  /\ returned' = Nothing
  /\ UNCHANGED <<envVars, nUpdates, remote, queueVars, inflight, loading,
                 drainVars, extVars>>

NextMerge ==
  \/ \E st \in StoredStates : StoreGame(st)
  \/ UpdateGuestGameCall
  \/ UpdateLocalGameCall
  \/ UpdateHybridGuestGameCall

SpecMerge == InitMerge /\ [][NextMerge]_vars

\* ------------------------------------------------------------ properties
\* the cached record of game g, in the family that holds it
HasCached(g) ==
  g \in (DOMAIN localGames) \cup (DOMAIN hybridGames) \cup (DOMAIN guestGames)

Cached(g) ==
  IF g \in DOMAIN localGames THEN localGames[g]
  ELSE IF g \in DOMAIN hybridGames THEN hybridGames[g]
  ELSE guestGames[g]

Versioned(g) == HasCached(g) /\ "version" \in DOMAIN Cached(g)

\* the queue positions that hold an item of game g
ItemsOf(q, g) == {i \in 1..Len(q) : q[i].gameId = g}

\* C1: no coordinator operation (createGame, updateGame, a Sync Queue
\* drain) leaves the version of a game's local record lower than it was
\* before the operation.
LocalVersionNeverDecreases ==
  [][\A g \in Games :
       (HasCached(g) /\ HasCached(g)') =>
         VersionOr0(Cached(g)') >= VersionOr0(Cached(g))]_vars

\* C2: a remote write of the coordinator (the write of an updateGame call,
\* the write of a drained queue item) replaces a remote record only with a
\* payload whose version is higher than the version the record holds.
RemoteWritesAreNewer ==
  [][last' \in {"updateGameSynced", "drainStepOk"} =>
       \A g \in DOMAIN remote :
         (g \in DOMAIN remote' /\ remote'[g] # remote[g]) =>
           VersionOr0(remote'[g]) > VersionOr0(remote[g])]_vars

\* C3: when loadGame's merge or getUserGames' list merge copies remote data
\* into local storage, a local record whose version is greater than or
\* equal to the remote record's keeps its state and its version.
RemoteNeverOverwritesNewerLocal ==
  [][last' \in {"loadGameRead", "getUserGames"} =>
       \A g \in DOMAIN remote :
         (HasCached(g) /\ VersionOr0(remote[g]) <= VersionOr0(Cached(g))) =>
           /\ Cached(g)'.state = Cached(g).state
           /\ VersionOr0(Cached(g)') = VersionOr0(Cached(g))]_vars

\* C4: a loadGame that finds a local and a remote copy resolves by version:
\* remote newer, the local record takes the remote state and version with
\* lastSyncedAt = now; local newer, the local record is kept and an update
\* carrying its state is enqueued; equal, nothing changes.
LoadResolvesByVersion ==
  [][\A l \in loading :
       (last' = "loadGameRead" /\ l.hasLocal /\ l.g \in DOMAIN remote
          /\ HasCached(l.g)) =>
         LET loc == Cached(l.g)
             fb  == remote[l.g]
         IN  /\ VersionOr0(fb) > VersionOr0(loc) =>
                  /\ Cached(l.g)'.state = fb.state
                  /\ VersionOr0(Cached(l.g)') = VersionOr0(fb)
                  /\ Cached(l.g)'.lastSyncedAt = now
             /\ VersionOr0(loc) > VersionOr0(fb) =>
                  /\ Cached(l.g)' = loc
                  /\ \E i \in ItemsOf(queue', l.g) :
                       /\ queue'[i].type = "update"
                       /\ queue'[i].timestamp = now
                       /\ queue'[i].payload.state = loc.state
             /\ VersionOr0(loc) = VersionOr0(fb) =>
                  UNCHANGED <<storeVars, remote, queue>>]_vars

\* C5: an updateGame call raises the version of the local record by exactly
\* 1: by 1 when it writes the record, by nothing more when its remote write
\* settles.
MutationRaisesVersionByOne ==
  [][/\ last' = "updateGame" =>
          \A g \in Games :
            (Versioned(g) /\ Cached(g)' # Cached(g)) =>
              Cached(g)'.version = Cached(g).version + 1
     /\ last' \in {"updateGameSynced", "updateGameQueued"} =>
          \A op \in inflight \ inflight' :
            Cached(op.g)'.version = Cached(op.g).version]_vars

\* C6: a drain takes the queued items in queue order; a successful item
\* stamps the local record (lastSyncedAt, version) and is gone from the
\* queue when the drain finishes; a failed item is still queued then.
DrainKeepsFailedItems ==
  [][/\ (last' = "online" /\ drainActive' /\ ~drainActive) =>
          drainSnap' = queue /\ drainIdx' = 1
     /\ last' \in {"drainStepOk", "drainStepFailed"} =>
          drainIdx' = drainIdx + 1
     /\ last' = "drainStepOk" =>
          LET c == drainSnap[drainIdx]
          IN  c.gameId \in DOMAIN localGames =>
                /\ localGames'[c.gameId].lastSyncedAt = now
                /\ localGames'[c.gameId].version = c.version + 1
     /\ last' = "drainFinish" =>
          /\ \A c \in drainFailed : ItemsOf(queue', c.gameId) # {}
          /\ \A k \in 1..Len(drainSnap) :
               drainSnap[k] \notin drainFailed =>
                 \A i \in 1..Len(queue') : queue'[i] # drainSnap[k]]_vars

\* C10: an online transition with a mutation of a hybrid guest game in the
\* Sync Queue starts a drain (which is what writes the mutation to the
\* remote store and removes it from the queue).
OnlineDrainsHybridItems ==
  [][(last' = "online"
        /\ \E i \in 1..Len(queue) : queue[i].gameId \in DOMAIN hybridGames) =>
       drainActive']_vars

\* C7: after a saveSyncQueue call the queue holds at most one item per
\* game, each the latest one enqueued for its game, in ascending timestamp
\* order, at most SyncQueueCap of them; an item the call dropped is no
\* younger than any item it kept.
QueueHoldsLatestPerGame ==
  [][last' = "saveSyncQueue" =>
       /\ \A i, j \in 1..Len(queue') :
            queue'[i].gameId = queue'[j].gameId => i = j
       /\ \A i \in 1..Len(queue') :
            /\ queue'[i].gameId \in DOMAIN enqueued'
            /\ queue'[i] = enqueued'[queue'[i].gameId]
       /\ \A i \in 1..(Len(queue') - 1) :
            queue'[i].timestamp <= queue'[i + 1].timestamp
       /\ Len(queue') <= SyncQueueCap
       /\ \A i \in 1..Len(queue) :
            ItemsOf(queue', queue[i].gameId) = {} =>
              \A j \in 1..Len(queue') :
                queue[i].timestamp <= queue'[j].timestamp]_vars

\* a full queue whose oldest backlog item was dropped, with the items of
\* two enqueuing games in it
QueueAtCapWitness ==
  /\ last = "saveSyncQueue"
  /\ Len(queue) = SyncQueueCap
  /\ ItemsOf(queue, QueueGames + 1) = {}
  /\ ItemsOf(queue, 1) # {}
  /\ ItemsOf(queue, 2) # {}

\* C8: a registered createGame whose remote write did not land leaves the
\* game in local storage and exactly one queue item for it, of type create;
\* when a drain then writes that item, the remote record has the local
\* game's id, teams, settings and state, and a drain in which no write
\* failed leaves the queue empty.
OfflineCreateThenDrain ==
  [][/\ (last' = "createGameQueued" /\ user = "reg"
           /\ nextId \notin DOMAIN remote') =>
          /\ nextId \in DOMAIN localGames'
          /\ Cardinality(ItemsOf(queue', nextId)) = 1
          /\ \A i \in ItemsOf(queue', nextId) : queue'[i].type = "create"
     /\ last' = "drainStepOk" =>
          LET c == drainSnap[drainIdx]
              g == c.gameId
          IN  (c.type = "create" /\ g \in DOMAIN localGames
                 /\ VersionOr0(localGames[g]) = 1) =>
                /\ g \in DOMAIN remote'
                /\ remote'[g].teamA = localGames'[g].teamA
                /\ remote'[g].settings = localGames'[g].settings
                /\ remote'[g].sharePublic = localGames'[g].sharePublic
                /\ remote'[g].state = localGames'[g].state
     /\ (last' = "drainFinish" /\ drainFailed = {}) => queue' = <<>>]_vars

\* a drain has written the create item of an untouched game and finished
OfflineCreateDrainedWitness ==
  /\ last = "drainFinish"
  /\ queue = <<>>
  /\ \E g \in (DOMAIN localGames) \cap (DOMAIN remote) \cap (DOMAIN enqueued) :
       /\ enqueued[g].type = "create"
       /\ remote[g].teamA = "obj"
       /\ remote[g].state = InitialState
       /\ localGames[g].state = InitialState
       /\ localGames[g].version = 2

\* C9: for a registered user whose remote write fails, createGame returns
\* the game id and updateGame the updated game; the local record holds the
\* written data and is left as written when the failure is handled; the
\* mutation is in the Sync Queue.
RemoteFailureKeepsLocalWrite ==
  [][/\ (last' = "createGameQueued" /\ user = "reg") =>
          /\ returned' = ReturnedId(nextId)
          /\ nextId \in DOMAIN localGames'
          /\ localGames'[nextId].state = InitialState
          /\ localGames'[nextId].version = 1
          /\ \E i \in ItemsOf(queue', nextId) :
               /\ queue'[i].type = "create"
               /\ queue'[i].payload.state = localGames'[nextId].state
               /\ queue'[i].payload.teamA = localGames'[nextId].teamA
     /\ (last' = "updateGame" /\ user = "reg") =>
          \A op \in inflight' \ inflight :
            /\ localGames'[op.g].state.scores = op.updates.state.scores
            /\ localGames'[op.g].version = VersionOr0(localGames[op.g]) + 1
     /\ (last' = "updateGameQueued" /\ user = "reg") =>
          \A op \in inflight \ inflight' :
            /\ returned'.kind = "game"
            /\ returned'.id = op.g
            /\ returned'.game.state.scores = op.updates.state.scores
            /\ localGames'[op.g] = localGames[op.g]
            /\ \E i \in ItemsOf(queue', op.g) :
                 /\ queue'[i].type = "update"
                 /\ queue'[i].payload = op.updates
                 /\ queue'[i].version = op.newVersion]_vars

\* a registered updateGame whose remote write threw while online has
\* returned the game, with the update in local storage and in the queue
RemoteFailureWitness ==
  /\ last = "updateGameQueued"
  /\ user = "reg"
  /\ isOnline
  /\ returned.kind = "game"
  /\ returned.id \in DOMAIN localGames
  /\ localGames[returned.id].state = returned.game.state
  /\ \E i \in ItemsOf(queue, returned.id) : queue[i].type = "update"

\* C11: on a hybrid game, when the debounce timer of the latest scorer-page
\* mutation expires (2000 ms after it, no earlier), exactly one updateGame
\* call starts, and it carries the payload of that latest mutation.
DebouncedWriteCarriesLastMutation ==
  [][last' = "debouncedSync" =>
       /\ now >= mutated.at + DebounceMs
       /\ Cardinality(syncing' \ syncing) = 1
       /\ \A op \in syncing' \ syncing : op.updates = mutated.updates]_vars

\* a game held in the guest family only, not shared
GuestOnly(g) ==
  /\ g \in DOMAIN guestGames
  /\ g \notin DOMAIN hybridGames
  /\ ~Flag(guestGames[g], "sharePublic")

\* C12: while the user is anonymous, no step (createGame, loadGame,
\* updateGame, deleteGame or any other) gives a guest-only unshared game
\* a remote document, a Sync Queue item, a record in another family or a
\* pending remote call of the coordinator.
GuestGameStaysLocal ==
  [][\A g \in Games :
       (user = "anon"
          /\ (GuestOnly(g) \/ (last' = "createGameLocal" /\ g = nextId)))
       => /\ g \notin DOMAIN remote'
          /\ g \notin DOMAIN enqueued'
          /\ ItemsOf(queue', g) = {}
          /\ g \notin (DOMAIN hybridGames') \cup (DOMAIN localGames')
          /\ \A op \in inflight' \cup deleting' : op.g # g
          /\ \A l \in loading' : l.g = g => l.impl = "getPublicGame"]_vars

\* an anonymous user has created, updated and deleted an unshared game
GuestGameDeletedWitness ==
  /\ user = "anon"
  /\ last = "deleteGame"
  /\ returned = ReturnedBool(1, TRUE)
  /\ nUpdates > 0
  /\ 1 \notin DOMAIN guestGames

\* C13: no game of an anonymous user is ever written to the remote store.
AnonymousGamesStayOnDevice ==
  \A g \in DOMAIN remote : remote[g].ownerId # GuestOwner

\* C14: what getPublicGame or the live view's snapshot handler shows is a
\* game whose sharePublic flag is true.
PublicReadShowsSharedOnly ==
  (last \in {"getPublicGame", "liveView"} /\ returned.kind = "game")
    => Flag(returned.game, "sharePublic")

\* the families that hold a full record of game g
FamiliesOf(g) ==
  {f \in {"guest", "hybrid", "local"} :
     \/ f = "guest" /\ g \in DOMAIN guestGames
     \/ f = "hybrid" /\ g \in DOMAIN hybridGames
     \/ f = "local" /\ g \in DOMAIN localGames}

\* the signed-in user's own record of game g, with a remote document
OwnedAndSynced(g) ==
  /\ g \in DOMAIN remote
  /\ \/ user = "anon" /\ g \in DOMAIN hybridGames
     \/ /\ user = "reg"
        /\ g \in DOMAIN localGames
        /\ localGames[g].ownerId = RegUid
        /\ remote[g].ownerId = RegUid

\* C15: when deleteGame returns (its remote delete did not throw) for a
\* game that has the user's local record and a remote document, both are
\* gone.
DeleteRemovesBoth ==
  [][\A g \in Games :
       (/\ last' \in {"deleteGame", "deleteGameDone", "deleteGameRefused"}
        /\ returned'.kind = "bool"
        /\ returned'.id = g
        /\ OwnedAndSynced(g))
       => FamiliesOf(g)' = {} /\ g \notin DOMAIN remote']_vars

\* C16: a game id has a full record in at most one local family.
OneFamilyPerGame == \A g \in Games : Cardinality(FamiliesOf(g)) <= 1

\* the successor of a phase in the order quarter(1), break(1), ...,
\* quarter(n), fulltime
Successor(phase, n) ==
  CASE phase = FullTime -> FullTime
    [] phase.type = "break" -> Quarter(phase.index + 1)
    [] phase.type = "quarter" /\ phase.index < n -> Break(phase.index)
    [] OTHER -> FullTime

Remaining(g, t) ==
  LET running ==
        IF g.state.isRunning /\ g.state.phaseStartedAt # NoStart
        THEN Max(0, t - g.state.phaseStartedAt) ELSE 0
  IN  Max(0, phaseDurationMs(g.state.phase, g.settings)
               - (g.state.elapsedMs + running))

\* the auto-advance of a running phase is due: nothing remains and the
\* grace window (none for the final quarter) has passed
AdvanceDue(g, t) ==
  LET st == g.state
      grace ==
        IF st.phase.type = "quarter" /\ st.phase.index = g.settings.numQuarters
        THEN 0 ELSE GraceMs
  IN  /\ st.isRunning
      /\ st.phaseStartedAt # NoStart
      /\ st.phase.type # "fulltime"
      /\ Remaining(g, t) = 0
      /\ st.elapsedMs + Max(0, t - st.phaseStartedAt)
           >= phaseDurationMs(st.phase, g.settings) + grace

\* C18: whenever the auto-advance effect runs while the advance of the
\* running phase is due, whatever the carried elapsedMs, it moves to the
\* successor, running unless that is fulltime.
AutoAdvanceFiresWhenDue ==
  [][(last' \in {"autoAdvance", "phaseEffect"} /\ AdvanceDue(scorerGame, now))
       => /\ scorerGame'.state.phase =
               nextPhase(scorerGame.state.phase, scorerGame.settings)
          /\ scorerGame'.state.isRunning =
               (scorerGame'.state.phase.type # "fulltime")]_vars

\* C19: for a running quarter that is not the final one, with no carried
\* time, a run of the auto-advance effect advances exactly when more than
\* duration + 5000 ms have passed since phaseStartedAt, and then to the
\* break of the same index, running.
GraceBoundary ==
  [][LET st == scorerGame.state
         since == now - st.phaseStartedAt
         limit == phaseDurationMs(st.phase, scorerGame.settings) + GraceMs
     IN  (/\ last' \in {"autoAdvance", "phaseEffect"}
          /\ st.isRunning
          /\ st.phaseStartedAt # NoStart
          /\ st.elapsedMs = 0
          /\ st.phase.type = "quarter"
          /\ st.phase.index < scorerGame.settings.numQuarters)
         => /\ (last' = "autoAdvance") = (since > limit)
            /\ last' = "autoAdvance" =>
                 /\ scorerGame'.state.phase = Break(st.phase.index)
                 /\ scorerGame'.state.isRunning]_vars

\* C20: the remaining time shown by the scorer's timer and by both live
\* views is max(0, duration - (elapsedMs + (isRunning ? max(0, now -
\* phaseStartedAt) : 0))) at the clock value it was computed for.
RemainingIsClamped ==
  /\ scorerGame # NoGame => timer.remainingMs = Remaining(scorerGame, now)
  /\ last = "viewTick" =>
       /\ left = Remaining(scorerGame, returned.at)
       /\ leftLegacy = Remaining(scorerGame, returned.at)

\* C21: phaseDurationMs never throws and returns a non-negative number:
\* quarterDurationSec*1000 for a quarter, breakDurationsSec[index-1]*1000
\* for a break inside the list, 0 for fulltime and for malformed input.
PhaseDurationIsTotal ==
  last = "phaseDurationMs" =>
    LET phase == callArgs.phase
        settings == callArgs.settings
        wellFormed == phase.has /\ settings.has
        expected ==
          IF ~wellFormed THEN 0
          ELSE IF phase.v.type = "quarter" /\ settings.v.quarterDurationSec.has
          THEN settings.v.quarterDurationSec.v * 1000
          ELSE IF /\ phase.v.type = "break"
                  /\ settings.v.breakDurationsSec.has
                  /\ phase.v.index \in 1..Len(settings.v.breakDurationsSec.v)
          THEN settings.v.breakDurationsSec.v[phase.v.index] * 1000
          ELSE 0
    IN  /\ returned.kind = "number"
        /\ returned.value >= 0
        /\ returned.value = expected

Other(team) == IF team = "A" THEN "B" ELSE "A"

\* C22: a goal is scored only while a quarter is running; score(T) adds
\* exactly 1 to scores[T] and to quarterScores[q][T] of the running quarter
\* q, leaves every other number as it was, flips centrePass and records
\* lastGoal = {team: T, previousCentrePass: the centrePass before}.
ScoreAddsOneGoal ==
  [][last' = "score" =>
       LET st == scorerGame.state
           st2 == scorerGame'.state
           q == st.phase.index
       IN  /\ st.isRunning /\ st.phase.type = "quarter"
           /\ \E T \in Teams :
                /\ st2.scores[T] = st.scores[T] + 1
                /\ st2.scores[Other(T)] = st.scores[Other(T)]
                /\ st2.quarterScores[q][T] = st.quarterScores[q][T] + 1
                /\ st2.quarterScores[q][Other(T)] = st.quarterScores[q][Other(T)]
                /\ \A x \in DOMAIN st.quarterScores \ {q} :
                     st2.quarterScores[x] = st.quarterScores[x]
                /\ DOMAIN st2.quarterScores = DOMAIN st.quarterScores
                /\ st2.centrePass = Other(st.centrePass)
                /\ st2.lastGoal # NoGoal
                /\ st2.lastGoal.team = T
                /\ st2.lastGoal.previousCentrePass = st.centrePass]_vars

\* three goals by A from 0-0 in quarter 1, centre pass first with A
ThreeGoalsWitness ==
  /\ last = "score"
  /\ nUpdates = 3
  /\ scorerGame.state.phase = Quarter(1)
  /\ scorerGame.state.scores = [A |-> 3, B |-> 0]
  /\ scorerGame.state.quarterScores[1] = [A |-> 3, B |-> 0]
  /\ scorerGame.state.centrePass = "B"
  /\ scorerGame.state.lastGoal.team = "A"
  /\ beforeGoal.scores = [A |-> 2, B |-> 0]
  /\ beforeGoal.centrePass = "A"

\* C23: undo subtracts 1 from scores[lastGoal.team] and from that team's
\* entry of the running quarter, restores centrePass to
\* lastGoal.previousCentrePass and clears lastGoal; straight after a goal it
\* restores scores, quarterScores and centrePass to their values before the
\* goal; with no lastGoal it changes nothing, so two undos in a row never
\* revert two goals.
UndoRevertsLastGoal ==
  [][LET st == scorerGame.state
         st2 == scorerGame'.state
     IN  /\ last' = "undo" =>
              LET g == st.lastGoal
                  q == st.phase.index
              IN  /\ g # NoGoal
                  /\ st2.scores[g.team] = st.scores[g.team] - 1
                  /\ st2.scores[Other(g.team)] = st.scores[Other(g.team)]
                  /\ st2.quarterScores[q][g.team] =
                       st.quarterScores[q][g.team] - 1
                  /\ st2.quarterScores[q][Other(g.team)] =
                       st.quarterScores[q][Other(g.team)]
                  /\ \A x \in DOMAIN st.quarterScores \ {q} :
                       st2.quarterScores[x] = st.quarterScores[x]
                  /\ st2.centrePass = g.previousCentrePass
                  /\ st2.lastGoal = NoGoal
         /\ (last = "score" /\ last' = "undo") =>
              /\ st2.scores = beforeGoal.scores
              /\ st2.quarterScores = beforeGoal.quarterScores
              /\ st2.centrePass = beforeGoal.centrePass
         /\ last' = "undoNothing" =>
              (st.lastGoal = NoGoal /\ scorerGame' = scorerGame)
         /\ last = "undo" => last' # "undo"]_vars

\* the third of three goals by A has been undone
UndoWitness ==
  /\ last = "undo"
  /\ nUpdates = 4
  /\ scorerGame.state.scores = [A |-> 2, B |-> 0]
  /\ scorerGame.state.quarterScores[1] = [A |-> 2, B |-> 0]
  /\ scorerGame.state.centrePass = "A"
  /\ scorerGame.state.lastGoal = NoGoal
  /\ beforeGoal.scores = scorerGame.state.scores

RECURSIVE SumOver(_, _, _)
\* the goals of a team summed over the quarters in qs
SumOver(qsc, qs, team) ==
  IF qs = {} THEN 0
  ELSE LET q == CHOOSE x \in qs : TRUE
       IN  qsc[q][team] + SumOver(qsc, qs \ {q}, team)

QuarterSumsMatch(st) ==
  \A team \in Teams :
    SumOver(st.quarterScores, DOMAIN st.quarterScores, team) = st.scores[team]

\* C24 as stated: in every reachable game state the quarterScores of each
\* team summed over all quarters equal its scores.
QuarterScoresSumToScores ==
  scorerGame # NoGame => QuarterSumsMatch(scorerGame.state)

\* C24: score, undo, phase advance and reset keep the sums of quarterScores
\* equal to scores, and reset makes them equal; a manual score edit in a
\* break leaves them equal only when the typed totals are the sums.
QuarterSumsKeptExceptByEdit ==
  [][LET st == scorerGame.state
         st2 == scorerGame'.state
     IN  /\ (QuarterSumsMatch(st) /\ last' # "editScores")
              => QuarterSumsMatch(st2)
         /\ last' = "resetGame" => QuarterSumsMatch(st2)
         /\ last' = "editScores" =>
              (QuarterSumsMatch(st2) <=>
                 \A team \in Teams :
                   st2.scores[team] =
                     SumOver(st.quarterScores, DOMAIN st.quarterScores, team))]_vars

\* goals in two quarters, the sums still equal to the totals
TwoQuartersWitness ==
  /\ last = "score"
  /\ scorerGame.state.phase = Quarter(2)
  /\ scorerGame.state.quarterScores[1] = [A |-> 2, B |-> 1]
  /\ scorerGame.state.quarterScores[2] = [A |-> 0, B |-> 2]
  /\ scorerGame.state.scores = [A |-> 2, B |-> 3]

\* the fields of the game state that full time freezes
Frozen(st) ==
  <<st.phase, st.scores, st.quarterScores, st.centrePass, st.isRunning,
    st.phaseStartedAt, st.elapsedMs>>

\* C25: at full time the clock is stopped, and a step of the scorer page
\* that changes the phase, scores, quarterScores, centrePass or clock
\* fields of a game at full time is the reset, which leads to quarter 1,
\* not running, with zero scores and zero quarterScores.
FullTimeIsTerminal ==
  [][LET st == scorerGame.state
         st2 == scorerGame'.state
     IN  /\ st2.phase = FullTime => ~st2.isRunning
         /\ (st.phase = FullTime /\ Frozen(st2) # Frozen(st)) =>
              /\ last' = "resetGame"
              /\ st2.phase = Quarter(1)
              /\ ~st2.isRunning
              /\ st2.elapsedMs = 0
              /\ st2.scores = ZeroScores
              /\ \A q \in DOMAIN st2.quarterScores :
                   st2.quarterScores[q] = ZeroScores]_vars

\* the END button has ended the last quarter of a game with goals, and the
\* START button has been pressed at full time
FullTimeWitness ==
  /\ last = "startNew"
  /\ nUpdates > 0
  /\ scorerGame.state.phase = FullTime
  /\ scorerGame.state.scores # ZeroScores

\* (rec.lastSyncedAt), 0 when the record has none
SyncedAt(rec) == IF "lastSyncedAt" \in DOMAIN rec THEN rec.lastSyncedAt ELSE 0

\* the steps in which a remote write, or a remote read adopted on load,
\* has succeeded
RemoteConfirmed ==
  {"createGameSynced", "updateGameSynced", "drainStepOk", "loadGameRead",
   "getUserGames"}

\* C26: the lastSyncedAt of a stored local record changes only in a step in
\* which a remote write (or an adopted remote read) for the game succeeded;
\* a local-only mutation or a failed remote attempt leaves it unchanged.
LastSyncedAtOnlyOnConfirm ==
  [][\A g \in Games :
       /\ (g \in DOMAIN hybridGames /\ g \in DOMAIN hybridGames'
            /\ SyncedAt(hybridGames'[g]) # SyncedAt(hybridGames[g]))
            => last' \in RemoteConfirmed
       /\ (g \in DOMAIN localGames /\ g \in DOMAIN localGames'
            /\ SyncedAt(localGames'[g]) # SyncedAt(localGames[g]))
            => last' \in RemoteConfirmed
       /\ (g \in DOMAIN guestGames /\ g \in DOMAIN guestGames'
            /\ SyncedAt(guestGames'[g]) # SyncedAt(guestGames[g]))
            => last' \in RemoteConfirmed]_vars

\* the remote document of game g is there and public
PublicRemote(g) ==
  g \in DOMAIN remote
    /\ (Flag(remote[g], "sharePublic") \/ Flag(remote[g], "isPubliclyViewable"))

\* C27: the live view enters the 'game not found' state only in a step in
\* which no shared record of the game is in hybrid or guest storage and, if
\* the step is a snapshot of the remote store, the remote document is not
\* a public game; with a shared local record present, the page does not
\* turn to 'game not found'.
NotFoundOnlyWhenAbsent ==
  [][(liveView'.isMounted /\ ~liveView.gameNotFound /\ liveView'.gameNotFound)
       => /\ ~SharedHybrid(PageGame)
          /\ ~SharedGuest(PageGame)
          /\ last' = "viewSnapshot" => ~PublicRemote(PageGame)]_vars

\* a document without state, or whose state has no phase
IsPartial(d) == "state" \notin DOMAIN d \/ "phase" \notin DOMAIN d.state

\* C28: a snapshot of a remote document that lacks state or state.phase
\* does not replace the game the live view shows: the game shown after the
\* snapshot callback is the game shown before it.
PartialSnapshotIgnored ==
  [][(last' = "viewSnapshot" /\ liveView.game # NoGame
        /\ PageGame \in DOMAIN remote /\ IsPartial(remote[PageGame]))
       => liveView'.game = liveView.game]_vars

\* C29: once the live view is torn down, none of the listeners it
\* subscribed and none of the polling intervals it started is still active.
TeardownCancelsAll ==
  liveView.phase = "torn"
    => liveView.listeners = {} /\ liveView.intervals = {}

\* the state fields an update names
Named(updates) ==
  IF "state" \in DOMAIN updates THEN DOMAIN updates.state ELSE {}

\* the call on store changed it to store2 as a field-by-field merge does
MergedInto(store, store2, id, updates, result) ==
  IF id \in DOMAIN store
  THEN /\ id \in DOMAIN store2
       /\ DOMAIN store2[id].state = (DOMAIN store[id].state) \cup Named(updates)
       /\ \A k \in DOMAIN store2[id].state :
            store2[id].state[k] =
              IF k \in Named(updates) THEN updates.state[k]
              ELSE store[id].state[k]
       /\ result = ReturnedGame(id, store2[id])
  ELSE store2 = store /\ result = ReturnedNull

\* C30: update(id, partial) on the guest, local or hybrid family leaves
\* every state field that partial.state does not name at its stored value
\* and sets the named ones; on an id the family does not hold it changes
\* nothing and returns null.
UpdateMergesStateFields ==
  [][/\ last' = "updateGuestGame"
          => MergedInto(guestGames, guestGames', callArgs.id,
                        callArgs.updates, returned')
     /\ last' = "updateLocalGame"
          => MergedInto(localGames, localGames', callArgs.id,
                        callArgs.updates, returned')
     /\ last' = "updateHybridGuestGame"
          => MergedInto(hybridGames, hybridGames', callArgs.id,
                        callArgs.updates, returned')]_vars

\* only scores was updated on a record whose centrePass is B: centrePass
\* is still B
ScoresOnlyWitness ==
  /\ last = "updateHybridGuestGame"
  /\ callArgs.id = StoredGame
  /\ Named(callArgs.updates) = {"scores"}
  /\ hybridGames[StoredGame].state.scores = [A |-> 5, B |-> 3]
  /\ hybridGames[StoredGame].state.centrePass = "B"
  /\ guestGames[StoredGame].state.scores # [A |-> 5, B |-> 3]

\* the labels of a createGame call that has returned
CreateLabels ==
  {"createGameSynced", "createGameLocal", "createGameFallback",
   "createGameQueued"}

\* C31: createGame called with no signed-in identity signals an error to
\* its caller (it hands back no id) and creates nothing: the local families,
\* the remote store and the Sync Queue are as they were.
UnauthenticatedCreateIsRefused ==
  [][(user = "none" /\ last' \in CreateLabels)
       => /\ returned'.kind = "throws"
          /\ UNCHANGED <<storeVars, remote, queue>>]_vars

\* C32: a scorer-page mutation of a game that is only in the guest family
\* is written to the guest record: after the mutation the stored state is
\* the stored state before it with the mutation's fields, which is what a
\* load returns.
GuestMutationIsPersisted ==
  [][(last' = "updateGameOptimizedGuest" /\ PageGame \in DOMAIN guestGames)
       => /\ PageGame \in DOMAIN guestGames'
          /\ guestGames'[PageGame].state =
               Merge(guestGames[PageGame].state, mutated'.updates.state)
          /\ LocalRead(PageGame)' =
               ReturnedGame(PageGame, guestGames'[PageGame])]_vars

\* C33: pausing at time t stores elapsedMs + (t - phaseStartedAt) and stops
\* the clock, resuming keeps elapsedMs and restarts at the resume time, and
\* the remaining time is the same before the pause, while paused and after
\* the resume.
PauseResumeCarriesClock ==
  [][LET st == scorerGame.state
         st2 == scorerGame'.state
         same == Remaining(scorerGame', now') = Remaining(scorerGame, now)
     IN  /\ last' = "pause"
              => /\ st2.elapsedMs = st.elapsedMs + (now - st.phaseStartedAt)
                 /\ ~st2.isRunning
                 /\ same
         /\ last' = "resume"
              => /\ st2.elapsedMs = st.elapsedMs
                 /\ st2.phaseStartedAt = now
                 /\ st2.isRunning
                 /\ same
         /\ (scorerGame # NoGame /\ ~st.isRunning /\ scorerGame' = scorerGame)
              => same]_vars

\* the same with the clock not behind the stored start time
PauseResumeCarriesClockForward ==
  [][scorerGame.state.phaseStartedAt <= now
       => LET st == scorerGame.state
              st2 == scorerGame'.state
              same == Remaining(scorerGame', now') = Remaining(scorerGame, now)
          IN  /\ last' = "pause"
                   => /\ st2.elapsedMs = st.elapsedMs + (now - st.phaseStartedAt)
                      /\ ~st2.isRunning
                      /\ same
              /\ last' = "resume"
                   => /\ st2.elapsedMs = st.elapsedMs
                      /\ st2.phaseStartedAt = now
                      /\ st2.isRunning
                      /\ same]_vars

\* a queued change of a game of the signed-in user: registered users'
\* games are the ones of the local family
OwnChange(change) ==
  /\ change.gameId \in DOMAIN localGames
  /\ "ownerId" \in DOMAIN localGames[change.gameId]
  /\ localGames[change.gameId].ownerId = user

\* C34: a drain writes to the remote store only queued changes of the
\* signed-in user's games, and when it finishes every queued change of
\* another identity's game is still in the queue.
DrainSendsOwnItemsOnly ==
  [][/\ last' = "drainStepOk" => OwnChange(drainSnap[drainIdx])
     /\ last' = "drainFinish"
          => \A i \in 1..Len(queue) :
               ~OwnChange(queue[i])
                 => \E j \in 1..Len(queue') : queue'[j] = queue[i]]_vars

\* the queued change is in the remote store: the document is there and, for
\* a change that carries a state, holds that state
Written(change) ==
  /\ change.gameId \in DOMAIN remote
  /\ "state" \in DOMAIN change.payload
       => remote[change.gameId].state = change.payload.state

\* C35: a change enqueued while a drain is in progress (it is in the queue
\* and not among the changes the drain read) is not discarded: when the
\* drain finishes it is still in the queue or it is in the remote store.
DrainKeepsNewItems ==
  [][last' = "drainFinish"
       => \A i \in 1..Len(queue) :
            (\A k \in 1..Len(drainSnap) : drainSnap[k] # queue[i])
              => \/ \E j \in 1..Len(queue') : queue'[j] = queue[i]
                 \/ Written(queue[i])]_vars

\* a game of the registered user that deleteGame has removed: its id was
\* handed out and its local record is gone
Deleted(g) == g < nextId /\ g \notin DOMAIN localGames

\* C36: once deleteGame has succeeded for a game, no drain step writes a
\* remote record for that game id.
DrainSkipsDeletedGames ==
  [][last' = "drainStepOk" => ~Deleted(drainSnap[drainIdx].gameId)]_vars

\* the remote document of game g is the complete game: teams, settings and
\* the state of the local record
CompleteRemote(g) ==
  /\ g \in DOMAIN remote
  /\ {"teamA", "settings", "state"} \subseteq DOMAIN remote[g]
  /\ remote[g].state = localGames[g].state

\* C37: a drain in which no remote call failed except updates of documents
\* that are missing, with nothing enqueued during the drain and no
\* updateGame call in flight at its end, leaves the complete record of every
\* game it had a change for in the remote store, also when the game's queued
\* create was replaced in the queue by a later update.
DrainKeepsPendingCreate ==
  [][(/\ last' = "drainFinish"
      /\ isOnline
      /\ inflight = {}
      /\ queue = drainSnap
      /\ \A c \in drainFailed :
           c.type = "update" /\ c.gameId \notin DOMAIN remote)
       => \A k \in 1..Len(drainSnap) :
            drainSnap[k].gameId \in DOMAIN localGames
              => CompleteRemote(drainSnap[k].gameId)]_vars

\* C38: while a debounce timer is armed for a pending payload (a mutation
\* made after the last expiry), no step discards that payload: it stays in
\* pendingSyncRef until the timer started for it sends it, also when an
\* earlier debounced write completes meanwhile.
PendingPayloadSurvivesCompletion ==
  [][(syncTimeout # NoTimer /\ pendingSync # NoPending)
       => pendingSync' # NoPending]_vars

\* the steps in which a remote write of the coordinator has succeeded
RemoteWriteLabels == {"createGameSynced", "updateGameSynced", "drainStepOk"}

\* the version of the record the device holds for game g
HeldVersion(hybrid, locals, g) ==
  IF g \in DOMAIN hybrid THEN hybrid[g].version ELSE locals[g].version

\* no call in flight and no queued change that is newer than the write
Settled(g) ==
  /\ \A op \in inflight' : op.g # g
  /\ \/ ItemsOf(queue', g) = {}
     \/ last' = "drainStepOk" /\ queue' = drainSnap'

\* C39: when a remote write for a game succeeds (immediate create, direct
\* or debounced update, or a drain step) and no other change of the game is
\* in flight or queued, the record on the device and the remote document
\* carry the same version.
VersionsAgreeAfterRemoteWrite ==
  [][last' \in RemoteWriteLabels
       => \A g \in DOMAIN remote' :
            (/\ g \notin DOMAIN remote \/ remote'[g] # remote[g]
             /\ g \in (DOMAIN hybridGames') \cup (DOMAIN localGames')
             /\ Settled(g))
            => HeldVersion(hybridGames', localGames', g) = remote'[g].version]_vars

NonNegative(sc) == sc.A >= 0 /\ sc.B >= 0

\* C40: the totals and every quarterScores entry of the game on the scorer
\* page are never negative, whatever score, undo, edit, phase advance and
\* reset operations were made.
ScoresNeverNegative ==
  /\ NonNegative(scorerGame.state.scores)
  /\ \A q \in DOMAIN scorerGame.state.quarterScores :
       NonNegative(scorerGame.state.quarterScores[q])
====
